---------------------------- MODULE Spec2Model ----------------------------
(***************************************************************************)
(* Block-device validation of the installer (validate_blk and the DM       *)
(* validators collect_valids / collect_valid_luks / collect_valid_pv /     *)
(* collect_valid_vg / validate_lv_size).                                   *)
(*                                                                         *)
(* Device paths are strings, a BlockDev is a record [device, device_type], *)
(* a BlockDevPath is a sequence of BlockDevs read base-to-tip, and the     *)
(* store (valids) is a sequence of paths.  The host snapshot is the three  *)
(* maps of the scanner plus the set of paths at which a file exists.       *)
(*                                                                         *)
(* The manifest is an input.  The variable manifest holds the declarations *)
(* the validator has read so far; every declaration is drawn from a        *)
(* bounded universe at the moment the code reads it, so that all manifests *)
(* of the universe are explored while sharing their common prefixes.  The  *)
(* one part of the manifest that is read ahead of its turn is the list of  *)
(* all LV declarations, which validate_lv_size scans before any DM entry   *)
(* is processed: the step either rejects one of the LV lists the function  *)
(* rejects, or passes, and then the DM stage reads only LV declarations    *)
(* that keep the manifest's LV list one the function passes.               *)
(***************************************************************************)
EXTENDS Integers, Sequences, FiniteSets, TLC

VARIABLES
    manifest,           \* declarations read so far: disks, dm, rootfs, filesystems, swap
    files,              \* host paths for which file_exists is true
    sys_fs_devs,        \* map device -> Fs kind (read-only)
    sys_fs_ready_devs,  \* map device -> kind, entries removed as consumed
    sys_lvms,           \* sequence of [key, paths] in the map's iteration order
    caller,             \* the two maps as validate holds them before the call
    valids,             \* the manifest-derived store
    fs_ready_devs,      \* the fs-ready tip set of the filesystem stage
    pc,                 \* position of validate_blk
    sub,                \* position inside the current LVM entry: pv, vg or lv
    last,               \* the declaration handled by the last step
    result,             \* outcome of validate_blk: [kind, about]
    args,               \* run's command line: [no_validate]
    run_pc,             \* position of run
    run_manifest,       \* the manifest run parsed, as apply_manifest takes it
    validated,          \* what validate returned to run
    stage,              \* the last stage of apply_manifest that was gone through
    actions,            \* the actions apply_manifest has performed
    report,             \* outcome of run: [kind, about]
    dm_at,              \* apply_dms: index of the entry apply_dm works on
    dms_actions,        \* apply_dms: its own vector of actions
    dm_actions,         \* apply_dm: its own vector of actions
    executed,           \* the commands that completed on the host, in order
    install_error,      \* the InstallError run returned
    exit_code,          \* the exit code of the process, -1 while it runs
    stderr,             \* what main wrote to stderr
    json,               \* Report::to_json: the tags of the serialized actions
    cmd,                \* the hook command given to parse_quicknet
    qn                  \* what parse_quicknet returned

run_vars == <<args, run_pc, run_manifest, validated, stage, actions, report,
              dm_at, dms_actions, dm_actions, executed, install_error,
              exit_code, stderr, json, cmd, qn>>

vars == <<manifest, files, sys_fs_devs, sys_fs_ready_devs,
          sys_lvms, caller, valids, fs_ready_devs, pc, sub, last, result, run_vars>>

-----------------------------------------------------------------------------
(* Bounds of the explored universe *)

\* partitions per manifest disk
MaxParts == 2
\* manifest disks
MaxDisks == 1
\* LV declarations in the manifest
MaxLvs == 2
\* LUKS, PV, VG and LV declarations in the manifest
MaxDmDecls == 4
\* PVs listed by one VG declaration
MaxVgPvs == 2
\* filesystems and swap entries are explored for manifests with at most this
\* many LUKS, PV, VG and LV declarations
MaxFsDmDecls == 1
\* entries of manifest.filesystems, and of manifest.swap
MaxFs == 1

-----------------------------------------------------------------------------
(* Strings *)

\* str::contains
Contains(s, t) ==
    \E i \in 1..(Len(s) - Len(t) + 1) : SubSeq(s, i, i + Len(t) - 1) = t

\* HashMap::remove
MapRemove(m, k) == [x \in (DOMAIN m) \ {k} |-> m[x]]

Last(seq) == seq[Len(seq)]

Range(seq) == { seq[i] : i \in 1..Len(seq) }

-----------------------------------------------------------------------------
(* Block device kinds *)

TYPE_DISK == "Disk"
TYPE_PART == "Partition"
TYPE_UNKNOWN == "UnknownBlock"
TYPE_LUKS == "Dm(Luks)"
TYPE_PV == "Dm(LvmPv)"
TYPE_VG == "Dm(LvmVg)"
TYPE_LV == "Dm(LvmLv)"
TYPE_FS == "Fs(ext4)"

BlockDev(d, t) == [device |-> d, device_type |-> t]

is_fs_base(t) == t \in {TYPE_DISK, TYPE_PART, TYPE_UNKNOWN, TYPE_LUKS, TYPE_LV}

\* is_luks_base with an arm for LvmPv
is_luks_base_pv(t) == t \in {TYPE_UNKNOWN, TYPE_DISK, TYPE_PART, TYPE_LV, TYPE_PV}

is_luks_base(t) == t \in {TYPE_UNKNOWN, TYPE_DISK, TYPE_PART, TYPE_LV}

is_pv_base(t) == t \in {TYPE_UNKNOWN, TYPE_DISK, TYPE_PART, TYPE_LUKS}

is_vg_base(t) == t = TYPE_PV

is_lv_base(t) == t = TYPE_VG

file_exists(path) == path \in files

\* Result values
Ok == [kind |-> "Ok", about |-> ""]
Err(k, a) == [kind |-> k, about |-> a]
Running == [kind |-> "Running", about |-> ""]

-----------------------------------------------------------------------------
(* Disk stage of validate_blk *)

\* partition_prefix that knows nvme devices only
partition_prefix_nvme(device) ==
    IF Contains(device, "nvme") THEN device \o "p" ELSE device

partition_prefix(device) ==
    IF Contains(device, "nvme") \/ Contains(device, "mmcblk")
    THEN device \o "p"
    ELSE device

partition_name(device, i) == partition_prefix(device) \o ToString(i)

\* The partition loop of one disk from index i on: the first partition whose
\* name is in sys_fs_ready_devs or sys_fs_devs ends validation, the others are pushed.
RECURSIVE validate_partitions(_, _, _)
validate_partitions(disk, i, v) ==
    IF i > Len(disk.partitions) THEN [res |-> Ok, valids |-> v]
    ELSE LET name == partition_name(disk.device, i) IN
         IF name \in DOMAIN sys_fs_ready_devs
         THEN [res |-> Err("BadManifest", name), valids |-> v]
         ELSE IF name \in DOMAIN sys_fs_devs
         THEN [res |-> Err("BadManifest", name), valids |-> v]
         ELSE validate_partitions(disk, i + 1,
                  Append(v, <<BlockDev(disk.device, TYPE_DISK), BlockDev(name, TYPE_PART)>>))

\* One iteration of the disk loop that pushes every partition unchecked
validate_disk_unchecked(disk, v) ==
    IF ~file_exists(disk.device)
    THEN [res |-> Err("BadManifest", disk.device), valids |-> v]
    ELSE [res |-> Ok,
          valids |-> v \o [i \in 1..Len(disk.partitions) |->
                             <<BlockDev(disk.device, TYPE_DISK),
                               BlockDev(partition_name(disk.device, i), TYPE_PART)>>]]

\* One iteration of the disk loop
validate_disk(disk, v) ==
    IF ~file_exists(disk.device)
    THEN [res |-> Err("BadManifest", disk.device), valids |-> v]
    ELSE validate_partitions(disk, 1, v)

-----------------------------------------------------------------------------
(* Last-LV-unsized rule *)

\* Option<String>
None == <<>>
Some(x) == <<x>>

\* Size parser: integer followed by a unit, or N%FREE
SizeUnits == {"B", "K", "M", "G", "T", "P", "E"}
Digits == {"0", "1", "2", "3", "4", "5", "6", "7", "8", "9"}
parse_human_bytes(size) ==
    /\ Len(size) >= 2
    /\ SubSeq(size, 1, 1) \in Digits
    /\ \/ /\ SubSeq(size, Len(size), Len(size)) \in SizeUnits
          /\ \A i \in 1..(Len(size) - 1) : SubSeq(size, i, i) \in Digits
       \/ /\ Len(size) >= 6
          /\ SubSeq(size, Len(size) - 4, Len(size)) = "%FREE"
          /\ \A i \in 1..(Len(size) - 5) : SubSeq(size, i, i) \in Digits

\* vg_lvs: the LVs collected under one key of the map, in declaration order.
\* The key is the vg field as written.
vg_lvs(lvs, vg) == SelectSeq(lvs, LAMBDA lv : lv.vg = vg)

\* The LV the inner loop over one VG's list returns an error for, if any:
\* the first one without size that is not the last of the list.
unsized_not_last(group) ==
    { i \in 1..Len(group) :
        /\ Len(group) # 1
        /\ group[i].size = None
        /\ i # Len(group)
        /\ \A j \in 1..(i - 1) : group[j].size # None }

\* validate_lv_size over the LV declarations in the order the loops over dms
\* and lvm.lvs visit them.  The map of VGs is iterated in no fixed order, so
\* the value is the set of results the function can return.
validate_lv_size(lvs) ==
    LET bad == { i \in 1..Len(lvs) :
                   lvs[i].size # None /\ ~parse_human_bytes(lvs[i].size[1]) }
        keys == { lvs[i].vg : i \in 1..Len(lvs) }
        errs == UNION { { Err("BadManifest", vg_lvs(lvs, k)[i].name) :
                            i \in unsized_not_last(vg_lvs(lvs, k)) } : k \in keys }
    IN  IF bad # {}
        THEN { Err("BadManifest", lvs[CHOOSE i \in bad : \A j \in bad : i <= j].size[1]) }
        ELSE IF errs = {} THEN {Ok} ELSE errs

\* vg_lv_name: the VG device and the LV device of an LV declaration
vg_name_of(lv) == IF Contains(lv.vg, "/dev/") THEN lv.vg ELSE "/dev/" \o lv.vg
vg_lv_name(lv) == <<vg_name_of(lv), vg_name_of(lv) \o "/" \o lv.name>>

-----------------------------------------------------------------------------
(* sys_lvms: a map pv -> list of paths, held as the sequence of its entries *)
(* [key, paths] in iteration order                                         *)

\* Outcome of a validator: its result and the collections it leaves behind
Out(r, v, ready, lvms) == [res |-> r, valids |-> v, ready |-> ready, lvms |-> lvms]

\* sys_lvms.get(key): the nodes of all paths under the key (iter().flatten())
lvms_nodes(lvms, key) ==
    UNION { UNION { { lvms[i].paths[j][k] : k \in 1..Len(lvms[i].paths[j]) } :
                    j \in 1..Len(lvms[i].paths) } :
            i \in { x \in 1..Len(lvms) : lvms[x].key = key } }

\* sys_lvm.clear() on path j of entry i
clear_path(lvms, i, j) == [lvms EXCEPT ![i].paths[j] = <<>>]

\* The VG some node of sys_lvms[key] names, for the error message
used_for_vg(lvms, key) ==
    { n \in lvms_nodes(lvms, key) : n.device_type = TYPE_VG }

-----------------------------------------------------------------------------
(* LUKS *)

luks_device(luks) == "/dev/mapper/" \o luks.name

\* 'find_some_vg: the first path of sys_lvms, in iteration order, whose tip
\* is the LUKS base decides: an error, a panic, or the VG beneath the tip.
RECURSIVE find_some_vg(_, _, _, _)
find_some_vg(lvms, base, i, j) ==
    IF i > Len(lvms) THEN [st |-> "none"]
    ELSE IF j > Len(lvms[i].paths) THEN find_some_vg(lvms, base, i + 1, 1)
    ELSE LET path == lvms[i].paths[j] IN
         IF path = <<>> THEN find_some_vg(lvms, base, i, j + 1)
         ELSE IF Last(path).device # base THEN find_some_vg(lvms, base, i, j + 1)
         ELSE IF ~is_luks_base(Last(path).device_type)
              THEN [st |-> "err", res |-> Err("BadManifest", base)]
         ELSE IF Len(path) < 2
              THEN [st |-> "err", res |-> Err("Panic", "no vg after 2 pops")]
         ELSE IF path[Len(path) - 1].device_type # TYPE_VG
              THEN [st |-> "err", res |-> Err("AliRsBug", path[Len(path) - 1].device)]
         ELSE [st |-> "found", vg |-> path[Len(path) - 1]]

\* 'new_pv: every entry of sys_lvms gives its first path that ends in VG -> base
\* to the store, extended with the LUKS node, and that path is cleared.
RECURSIVE luks_on_sys_lvms(_, _, _, _, _, _, _, _)
luks_on_sys_lvms(vg, base, luks_dev, ready, lvms, v, i, j) ==
    IF i > Len(lvms) THEN Out(Ok, v, ready, lvms)
    ELSE IF j > Len(lvms[i].paths)
         THEN luks_on_sys_lvms(vg, base, luks_dev, ready, lvms, v, i + 1, 1)
    ELSE LET path == lvms[i].paths[j] IN
         IF path = <<>>
         THEN luks_on_sys_lvms(vg, base, luks_dev, ready, lvms, v, i, j + 1)
         ELSE IF Last(path).device # base
         THEN luks_on_sys_lvms(vg, base, luks_dev, ready, lvms, v, i, j + 1)
         ELSE IF Len(path) < 2
         THEN Out(Err("Panic", "no vg after 2 pops"), v, ready, lvms)
         ELSE IF path[Len(path) - 1].device_type # TYPE_VG
         THEN Out(Err("AliRsBug", path[Len(path) - 1].device), v, ready, lvms)
         ELSE IF path[Len(path) - 1].device # vg.device
         THEN luks_on_sys_lvms(vg, base, luks_dev, ready, lvms, v, i, j + 1)
         ELSE luks_on_sys_lvms(vg, base, luks_dev, ready, clear_path(lvms, i, j),
                               Append(v, Append(path, luks_dev)), i + 1, 1)

\* The loop over the store: the LUKS node is appended to every path whose tip
\* is the base; a tip of a wrong kind ends the loop with an error.
RECURSIVE luks_on_valids(_, _, _, _, _)
luks_on_valids(base, luks_dev, v, k, found) ==
    IF k > Len(v) THEN [res |-> Ok, valids |-> v, found |-> found]
    ELSE IF v[k] = <<>>
         THEN [res |-> Err("Panic", "no back node"), valids |-> v, found |-> found]
    ELSE IF Last(v[k]).device # base THEN luks_on_valids(base, luks_dev, v, k + 1, found)
    ELSE IF ~is_luks_base(Last(v[k]).device_type)
         THEN [res |-> Err("BadManifest", base), valids |-> v, found |-> found]
    ELSE luks_on_valids(base, luks_dev, [v EXCEPT ![k] = Append(@, luks_dev)], k + 1, TRUE)

\* The tail of collect_valid_luks without the removal from sys_fs_ready_devs
luks_on_host_keep(base, luks_dev, ready, lvms, v) ==
    IF base \in DOMAIN ready
    THEN Out(Ok, Append(v, <<BlockDev(base, TYPE_UNKNOWN), luks_dev>>), ready, lvms)
    ELSE IF ~file_exists(base)
    THEN Out(Err("NoSuchDevice", base), v, ready, lvms)
    ELSE Out(Ok, Append(v, <<BlockDev(base, TYPE_UNKNOWN), luks_dev>>), ready, lvms)

\* The tail of collect_valid_luks: base from sys_fs_ready_devs or from a host file
luks_on_host(base, luks_dev, ready, lvms, v) ==
    IF base \in DOMAIN ready
    THEN Out(Ok, Append(v, <<BlockDev(base, TYPE_UNKNOWN), luks_dev>>),
             MapRemove(ready, base), lvms)
    ELSE IF ~file_exists(base)
    THEN Out(Err("NoSuchDevice", base), v, ready, lvms)
    ELSE Out(Ok, Append(v, <<BlockDev(base, TYPE_UNKNOWN), luks_dev>>), ready, lvms)

collect_valid_luks(luks, ready, lvms, v) ==
    LET base == luks.device
        luks_dev == BlockDev(luks_device(luks), TYPE_LUKS)
        found_vg == find_some_vg(lvms, base, 1, 1)
        on_v == luks_on_valids(base, luks_dev, v, 1, FALSE)
    IN  IF file_exists(luks_device(luks))
        THEN Out(Err("BadManifest", luks_device(luks)), v, ready, lvms)
        ELSE IF base \in DOMAIN sys_fs_devs
        THEN Out(Err("BadManifest", base), v, ready, lvms)
        ELSE IF found_vg.st = "err" THEN Out(found_vg.res, v, ready, lvms)
        ELSE IF found_vg.st = "found"
        THEN luks_on_sys_lvms(found_vg.vg, base, luks_dev, ready, lvms, v, 1, 1)
        ELSE IF on_v.res # Ok THEN Out(on_v.res, on_v.valids, ready, lvms)
        ELSE IF on_v.found THEN Out(Ok, on_v.valids, ready, lvms)
        ELSE luks_on_host(base, luks_dev, ready, lvms, v)

-----------------------------------------------------------------------------
(* PV *)

\* The store search of collect_valid_pv retyping the tip instead of
\* appending a node
RECURSIVE pv_on_valids_retyped(_, _, _)
pv_on_valids_retyped(pv_path, v, k) ==
    IF k > Len(v) THEN [res |-> Ok, valids |-> v, found |-> FALSE]
    ELSE IF v[k] = <<>>
         THEN [res |-> Err("Panic", "no back node"), valids |-> v, found |-> FALSE]
    ELSE IF Last(v[k]).device # pv_path THEN pv_on_valids_retyped(pv_path, v, k + 1)
    ELSE IF Last(v[k]).device_type = TYPE_PV
         THEN [res |-> Err("BadManifest", pv_path), valids |-> v, found |-> FALSE]
    ELSE IF ~is_pv_base(Last(v[k]).device_type)
         THEN [res |-> Err("BadManifest", pv_path), valids |-> v, found |-> FALSE]
    ELSE [res |-> Ok, found |-> TRUE,
          valids |-> [v EXCEPT ![k] = [@ EXCEPT ![Len(@)] = BlockDev(pv_path, TYPE_PV)]]]

\* The loop over the store: the first path whose tip is pv_path decides
RECURSIVE pv_on_valids(_, _, _)
pv_on_valids(pv_path, v, k) ==
    IF k > Len(v) THEN [res |-> Ok, valids |-> v, found |-> FALSE]
    ELSE IF v[k] = <<>>
         THEN [res |-> Err("Panic", "no back node"), valids |-> v, found |-> FALSE]
    ELSE IF Last(v[k]).device # pv_path THEN pv_on_valids(pv_path, v, k + 1)
    ELSE IF Last(v[k]).device_type = TYPE_PV
         THEN [res |-> Err("BadManifest", pv_path), valids |-> v, found |-> FALSE]
    ELSE IF ~is_pv_base(Last(v[k]).device_type)
         THEN [res |-> Err("BadManifest", pv_path), valids |-> v, found |-> FALSE]
    ELSE [res |-> Ok, found |-> TRUE,
          valids |-> [v EXCEPT ![k] = Append(@, BlockDev(pv_path, TYPE_PV))]]

\* The tail of collect_valid_pv pushing a list without nodes
pv_on_host_bare(pv_path, ready, lvms, v) ==
    IF pv_path \in DOMAIN ready
    THEN Out(Ok, Append(v, <<>>), MapRemove(ready, pv_path), lvms)
    ELSE IF ~file_exists(pv_path)
    THEN Out(Err("BadManifest", pv_path), v, ready, lvms)
    ELSE Out(Ok, Append(v, <<>>), ready, lvms)

\* The tail of collect_valid_pv with NoSuchDevice for a missing file
pv_on_host_missing(pv_path, ready, lvms, v) ==
    IF pv_path \in DOMAIN ready
    THEN Out(Ok, Append(v, <<BlockDev(pv_path, TYPE_UNKNOWN), BlockDev(pv_path, TYPE_PV)>>),
             MapRemove(ready, pv_path), lvms)
    ELSE IF ~file_exists(pv_path)
    THEN Out(Err("NoSuchDevice", pv_path), v, ready, lvms)
    ELSE Out(Ok, Append(v, <<BlockDev(pv_path, TYPE_UNKNOWN), BlockDev(pv_path, TYPE_PV)>>),
             ready, lvms)

\* The tail of collect_valid_pv: base from sys_fs_ready_devs or from a host file
pv_on_host(pv_path, ready, lvms, v) ==
    IF pv_path \in DOMAIN ready
    THEN Out(Ok, Append(v, <<BlockDev(pv_path, TYPE_UNKNOWN), BlockDev(pv_path, TYPE_PV)>>),
             MapRemove(ready, pv_path), lvms)
    ELSE IF ~file_exists(pv_path)
    THEN Out(Err("BadManifest", pv_path), v, ready, lvms)
    ELSE Out(Ok, Append(v, <<BlockDev(pv_path, TYPE_UNKNOWN), BlockDev(pv_path, TYPE_PV)>>),
             ready, lvms)

\* collect_valid_pv without the scan of sys_lvms[pv_path] for a VG node
collect_valid_pv_unscanned(pv_path, ready, lvms, v) ==
    LET on_v == pv_on_valids(pv_path, v, 1) IN
    IF pv_path \in DOMAIN sys_fs_devs
    THEN Out(Err("BadManifest", pv_path), v, ready, lvms)
    ELSE IF on_v.res # Ok THEN Out(on_v.res, v, ready, lvms)
    ELSE IF on_v.found THEN Out(Ok, on_v.valids, ready, lvms)
    ELSE pv_on_host(pv_path, ready, lvms, v)

\* collect_valid_pv without the check of pv_path against sys_fs_devs
collect_valid_pv_formatted(pv_path, ready, lvms, v) ==
    LET on_v == pv_on_valids(pv_path, v, 1) IN
    IF used_for_vg(lvms, pv_path) # {}
    THEN Out(Err("BadManifest", pv_path), v, ready, lvms)
    ELSE IF on_v.res # Ok THEN Out(on_v.res, v, ready, lvms)
    ELSE IF on_v.found THEN Out(Ok, on_v.valids, ready, lvms)
    ELSE pv_on_host(pv_path, ready, lvms, v)

collect_valid_pv(pv_path, ready, lvms, v) ==
    LET on_v == pv_on_valids(pv_path, v, 1) IN
    IF pv_path \in DOMAIN sys_fs_devs
    THEN Out(Err("BadManifest", pv_path), v, ready, lvms)
    ELSE IF used_for_vg(lvms, pv_path) # {}
    THEN Out(Err("BadManifest", pv_path), v, ready, lvms)
    ELSE IF on_v.res # Ok THEN Out(on_v.res, v, ready, lvms)
    ELSE IF on_v.found THEN Out(Ok, on_v.valids, ready, lvms)
    ELSE pv_on_host(pv_path, ready, lvms, v)

-----------------------------------------------------------------------------
(* VG *)

vg_device(vg) == "/dev/" \o vg.name

\* The loop over the store for one PV of the VG without the is_vg_base check
RECURSIVE vg_on_valids_any(_, _, _, _)
vg_on_valids_any(vg_dev, pv_base, v, k) ==
    IF k > Len(v) THEN [res |-> Ok, valids |-> v, found |-> FALSE]
    ELSE IF Last(v[k]).device # pv_base THEN vg_on_valids_any(vg_dev, pv_base, v, k + 1)
    ELSE [res |-> Ok, found |-> TRUE, valids |-> [v EXCEPT ![k] = Append(@, vg_dev)]]

\* The loop over the store for one PV of the VG: the first path whose tip is
\* the PV decides.
RECURSIVE vg_on_valids(_, _, _, _)
vg_on_valids(vg_dev, pv_base, v, k) ==
    IF k > Len(v) THEN [res |-> Ok, valids |-> v, found |-> FALSE]
    ELSE IF v[k] = <<>>
         THEN [res |-> Err("Panic", "no back node"), valids |-> v, found |-> FALSE]
    ELSE IF Last(v[k]).device # pv_base THEN vg_on_valids(vg_dev, pv_base, v, k + 1)
    ELSE IF ~is_vg_base(Last(v[k]).device_type)
         THEN [res |-> Err("BadManifest", pv_base), valids |-> v, found |-> FALSE]
    ELSE [res |-> Ok, found |-> TRUE, valids |-> [v EXCEPT ![k] = Append(@, vg_dev)]]

\* The loop over sys_lvms for one PV of the VG without sys_lvm.clear()
RECURSIVE vg_on_sys_lvms_keep(_, _, _, _, _, _)
vg_on_sys_lvms_keep(vg_dev, pv_base, lvms, v, i, j) ==
    IF i > Len(lvms) THEN [res |-> Ok, valids |-> v, lvms |-> lvms, found |-> FALSE]
    ELSE IF j > Len(lvms[i].paths)
         THEN vg_on_sys_lvms_keep(vg_dev, pv_base, lvms, v, i + 1, 1)
    ELSE LET path == lvms[i].paths[j] IN
         IF path = <<>> THEN vg_on_sys_lvms_keep(vg_dev, pv_base, lvms, v, i, j + 1)
         ELSE IF Last(path) = vg_dev
         THEN [res |-> Err("BadManifest", vg_dev.device), valids |-> v, lvms |-> lvms,
               found |-> FALSE]
         ELSE IF Last(path).device # pv_base
         THEN vg_on_sys_lvms_keep(vg_dev, pv_base, lvms, v, i, j + 1)
         ELSE IF ~is_vg_base(Last(path).device_type)
         THEN [res |-> Err("BadManifest", pv_base), valids |-> v, lvms |-> lvms,
               found |-> FALSE]
         ELSE [res |-> Ok, found |-> TRUE, valids |-> Append(v, Append(path, vg_dev)),
               lvms |-> lvms]

\* The loop over sys_lvms for one PV of the VG, in iteration order: a tip
\* equal to the VG node is an error, the first tip that is the PV is adopted.
RECURSIVE vg_on_sys_lvms(_, _, _, _, _, _)
vg_on_sys_lvms(vg_dev, pv_base, lvms, v, i, j) ==
    IF i > Len(lvms) THEN [res |-> Ok, valids |-> v, lvms |-> lvms, found |-> FALSE]
    ELSE IF j > Len(lvms[i].paths) THEN vg_on_sys_lvms(vg_dev, pv_base, lvms, v, i + 1, 1)
    ELSE LET path == lvms[i].paths[j] IN
         IF path = <<>> THEN vg_on_sys_lvms(vg_dev, pv_base, lvms, v, i, j + 1)
         ELSE IF Last(path) = vg_dev
         THEN [res |-> Err("BadManifest", vg_dev.device), valids |-> v, lvms |-> lvms,
               found |-> FALSE]
         ELSE IF Last(path).device # pv_base
         THEN vg_on_sys_lvms(vg_dev, pv_base, lvms, v, i, j + 1)
         ELSE IF ~is_vg_base(Last(path).device_type)
         THEN [res |-> Err("BadManifest", pv_base), valids |-> v, lvms |-> lvms,
               found |-> FALSE]
         ELSE [res |-> Ok, found |-> TRUE, valids |-> Append(v, Append(path, vg_dev)),
               lvms |-> clear_path(lvms, i, j)]

\* 'validate_vg_pv with sys_lvms searched before the store
RECURSIVE validate_vg_pv_sys_first(_, _, _, _, _)
validate_vg_pv_sys_first(vg, p, ready, lvms, v) ==
    IF p > Len(vg.pvs) THEN Out(Ok, v, ready, lvms)
    ELSE LET pv_base == vg.pvs[p]
             vg_dev == BlockDev(vg_device(vg), TYPE_VG)
             on_v == vg_on_valids(vg_dev, pv_base, v, 1)
             on_sys == vg_on_sys_lvms(vg_dev, pv_base, lvms, v, 1, 1)
         IN  IF pv_base \in DOMAIN sys_fs_devs
             THEN Out(Err("BadManifest", pv_base), v, ready, lvms)
             ELSE IF used_for_vg(lvms, pv_base) # {}
             THEN Out(Err("BadManifest", pv_base), v, ready, lvms)
             ELSE IF on_sys.res # Ok THEN Out(on_sys.res, v, ready, lvms)
             ELSE IF on_sys.found
             THEN validate_vg_pv_sys_first(vg, p + 1, ready, on_sys.lvms, on_sys.valids)
             ELSE IF on_v.res # Ok THEN Out(on_v.res, v, ready, lvms)
             ELSE IF on_v.found
             THEN validate_vg_pv_sys_first(vg, p + 1, ready, lvms, on_v.valids)
             ELSE Out(Err("BadManifest", pv_base), v, ready, lvms)

\* 'validate_vg_pv: the PVs of the VG from index p on, in the order listed
RECURSIVE validate_vg_pv(_, _, _, _, _)
validate_vg_pv(vg, p, ready, lvms, v) ==
    IF p > Len(vg.pvs) THEN Out(Ok, v, ready, lvms)
    ELSE LET pv_base == vg.pvs[p]
             vg_dev == BlockDev(vg_device(vg), TYPE_VG)
             on_v == vg_on_valids(vg_dev, pv_base, v, 1)
             on_sys == vg_on_sys_lvms(vg_dev, pv_base, lvms, v, 1, 1)
         IN  IF pv_base \in DOMAIN sys_fs_devs
             THEN Out(Err("BadManifest", pv_base), v, ready, lvms)
             ELSE IF used_for_vg(lvms, pv_base) # {}
             THEN Out(Err("BadManifest", pv_base), v, ready, lvms)
             ELSE IF on_v.res # Ok THEN Out(on_v.res, v, ready, lvms)
             ELSE IF on_v.found THEN validate_vg_pv(vg, p + 1, ready, lvms, on_v.valids)
             ELSE IF on_sys.res # Ok THEN Out(on_sys.res, v, ready, lvms)
             ELSE IF on_sys.found
             THEN validate_vg_pv(vg, p + 1, ready, on_sys.lvms, on_sys.valids)
             ELSE Out(Err("BadManifest", pv_base), v, ready, lvms)

collect_valid_vg(vg, ready, lvms, v) == validate_vg_pv(vg, 1, ready, lvms, v)

-----------------------------------------------------------------------------
(* LV *)

\* All paths of sys_lvms in iteration order
RECURSIVE lvms_paths(_, _)
lvms_paths(lvms, i) ==
    IF i > Len(lvms) THEN <<>> ELSE lvms[i].paths \o lvms_paths(lvms, i + 1)

\* The paths, store first and then sys_lvms, whose tip is the VG of the LV
lv_base_paths(vg_dev, lvms, v) ==
    SelectSeq(v \o lvms_paths(lvms, 1), LAMBDA path : path # <<>> /\ Last(path) = vg_dev)

\* The LV node appended in place to every store path that ends in the VG
lv_collect_valid_in_place(lv, ready, lvms, v) ==
    LET names == vg_lv_name(lv)
        vg_dev == BlockDev(names[1], TYPE_VG)
        lv_dev == BlockDev(names[2], TYPE_LV)
        bases == lv_base_paths(vg_dev, lvms, v)
    IN  IF bases = <<>> THEN Out(Err("BadManifest", names[1]), v, ready, lvms)
        ELSE Out(Ok, [k \in 1..Len(v) |->
                        IF Last(v[k]) = vg_dev THEN Append(v[k], lv_dev) ELSE v[k]],
                 ready, lvms)

\* Every path ending in the VG is cloned, extended with the LV node and pushed
lv_collect_valid(lv, ready, lvms, v) ==
    LET names == vg_lv_name(lv)
        vg_dev == BlockDev(names[1], TYPE_VG)
        lv_dev == BlockDev(names[2], TYPE_LV)
        bases == lv_base_paths(vg_dev, lvms, v)
    IN  IF bases = <<>> THEN Out(Err("BadManifest", names[1]), v, ready, lvms)
        ELSE IF lv.size # None /\ ~parse_human_bytes(lv.size[1])
        THEN Out(Err("BadManifest", lv.size[1]), v, ready, lvms)
        ELSE Out(Ok, v \o [n \in 1..Len(bases) |-> Append(bases[n], lv_dev)], ready, lvms)

-----------------------------------------------------------------------------
(* Filesystem stage of validate_blk *)

\* The loop over sys_fs_ready_devs without the is_fs_base test
not_fs_ready_unchecked(ready) == {}

\* The kinds left in sys_fs_ready_devs that are no filesystem base
not_fs_ready(ready) == { d \in DOMAIN ready : ~is_fs_base(ready[d]) }

\* fs_ready_devs: remaining sys_fs_ready_devs, fs-ready tips of sys_lvms and of valids
collect_fs_ready(ready, lvms, v) ==
    (DOMAIN ready)
    \cup { Last(p).device :
             p \in { q \in Range(lvms_paths(lvms, 1)) :
                       q # <<>> /\ is_fs_base(Last(q).device_type) } }
    \cup { Last(p).device : p \in { q \in Range(v) : is_fs_base(Last(q).device_type) } }

-----------------------------------------------------------------------------
(* The universe of manifests and host snapshots *)

DiskDevices == {"/dev/sda", "/dev/nvme0", "/dev/mmcblk0", "/dev/sdx"}
Partition == [label |-> "part", part_type |-> "8e"]
DiskDecls ==
    { [device |-> d, partitions |-> [i \in 1..n |-> Partition]] :
        d \in DiskDevices, n \in 0..MaxParts }

\* Devices a LUKS or a PV declaration may name
DmBases == {"/dev/sda1", "/dev/sdb", "/dev/sdc", "/dev/sde", "/dev/vg1/lv0",
            "/dev/vg0/lv0", "/dev/mapper/cs"}
LuksNames == {"cr", "cs", "ct"}
LuksDecls == { [name |-> n, device |-> d] : n \in LuksNames, d \in DmBases }
\* Devices a VG declaration may list
VgPvs == {"/dev/sda1", "/dev/sdb", "/dev/sdc", "/dev/sdd", "/dev/sde"}
VgNames == {"vg0", "vg1"}
LvNames == {"lv0", "lv1"}
LvVgs == {"vg0", "/dev/vg0", "vg1"}
LvSizes == {None, Some("1G")}
LvDecls == { [name |-> n, vg |-> g, size |-> z] : n \in LvNames, g \in LvVgs, z \in LvSizes }

SeqsUpTo(S, n) == UNION { [1..k -> S] : k \in 0..n }

\* Devices rootfs, a filesystem or a swap may name
FsDevices == {"/dev/sda", "/dev/sda1", "/dev/sdb", "/dev/vg1/lv0", "/dev/vg0/lv0", "/dev/vg0/lv1",
              "/dev/vg0", "/dev/mapper/cs", "/dev/nvme0p2"}

\* Host snapshots.  /dev/sdx and /dev/mapper/cs, /dev/mapper/ct do not exist;
\* /dev/sde (an existing file) and /dev/mmcblk0p2 carry a filesystem; /dev/nvme0p2 is an empty
\* partition; /dev/sdb may exist as a file and may be fs-ready (or be listed
\* as fs-ready with a kind that is no filesystem base); the LV of the system
\* may be listed as fs-ready.
FixedFiles == {"/dev/sda", "/dev/nvme0", "/dev/mmcblk0", "/dev/sde", "/dev/mapper/cr"}
SysFsDevs == { [d \in {"/dev/sde", "/dev/mmcblk0p2"} |-> TYPE_FS] }
ReadyFixed == [x \in {"/dev/nvme0p2"} |-> TYPE_PART]
WithReady(ready, d, t) == [x \in (DOMAIN ready) \cup {d} |-> IF x = d THEN t ELSE ready[x]]

PvOnly(pv) == <<BlockDev(pv, TYPE_PV)>>
PvVg(pv, vg) == <<BlockDev(pv, TYPE_PV), BlockDev(vg, TYPE_VG)>>
PvVgLv(pv, vg, lv) == <<BlockDev(pv, TYPE_PV), BlockDev(vg, TYPE_VG), BlockDev(lv, TYPE_LV)>>
LvmEntry(k, ps) == [key |-> k, paths |-> ps]
SysLvLess ==
    { <<>>,
      << LvmEntry("/dev/sdc", <<PvOnly("/dev/sdc")>>) >>,
      << LvmEntry("/dev/sdc", <<PvVg("/dev/sdc", "/dev/vg1")>>) >>,
      << LvmEntry("/dev/sdc", <<PvOnly("/dev/sdc")>>),
         LvmEntry("/dev/sdd", <<PvOnly("/dev/sdd")>>) >>,
      << LvmEntry("/dev/sdc", <<PvOnly("/dev/sdc")>>),
         LvmEntry("/dev/sdd", <<PvVg("/dev/sdd", "/dev/vg1")>>) >>,
      << LvmEntry("/dev/sdd", <<PvVg("/dev/sdd", "/dev/vg1")>>),
         LvmEntry("/dev/sdc", <<PvOnly("/dev/sdc")>>) >> }
SysLvFull ==
    { << LvmEntry("/dev/sdc", <<PvVgLv("/dev/sdc", "/dev/vg1", "/dev/vg1/lv0")>>) >>,
      << LvmEntry("/dev/sdc", <<PvVgLv("/dev/sdc", "/dev/vg1", "/dev/vg1/lv0")>>),
         LvmEntry("/dev/sdd", <<PvVgLv("/dev/sdd", "/dev/vg1", "/dev/vg1/lv0")>>) >> }
SysLvms == SysLvLess \cup SysLvFull

\* The devices of a sys_lvms map exist as files
RECURSIVE lvms_files(_)
lvms_files(lvms) ==
    IF lvms = <<>> THEN {}
    ELSE { Last(p).device : p \in Range(Head(lvms).paths) } \cup {Head(lvms).key}
         \cup lvms_files(Tail(lvms))

\* Host snapshots [files, ready, lvms]: without LVM, /dev/sdb in each of its
\* states; with LVM, /dev/sdb an fs-ready disk and the LV of the system
\* listed as fs-ready or not; without LVM, /dev/sdb listed as fs-ready with
\* the kind of a PV, which is no filesystem base; without LVM, the disk
\* /dev/sda listed as fs-ready
Snapshots ==
    { [files |-> FixedFiles \cup f, ready |-> r, lvms |-> <<>>] :
        f \in SUBSET {"/dev/sdb"},
        r \in {ReadyFixed, WithReady(ReadyFixed, "/dev/sdb", TYPE_DISK)} }
    \cup { [files |-> FixedFiles \cup {"/dev/sdb"} \cup lvms_files(l),
            ready |-> WithReady(ReadyFixed, "/dev/sdb", TYPE_DISK), lvms |-> l] :
            l \in SysLvms }
    \cup { [files |-> FixedFiles \cup {"/dev/sdb"} \cup lvms_files(l),
            ready |-> WithReady(WithReady(ReadyFixed, "/dev/sdb", TYPE_DISK),
                                "/dev/vg1/lv0", TYPE_LV),
            lvms |-> l] : l \in SysLvFull }
    \cup { [files |-> FixedFiles \cup {"/dev/sdb"},
            ready |-> WithReady(ReadyFixed, "/dev/sdb", TYPE_PV), lvms |-> <<>>] }
    \cup { [files |-> FixedFiles, ready |-> WithReady(ReadyFixed, "/dev/sda", TYPE_DISK), lvms |-> <<>>] }

-----------------------------------------------------------------------------
(* validate_blk as a state machine *)

NoDecl == [op |-> "none"]

LuksEntry(luks) == [kind |-> "Luks", name |-> luks.name, device |-> luks.device]
LvmOf(pvs, vgs, lvs) == [kind |-> "Lvm", pvs |-> pvs, vgs |-> vgs, lvs |-> lvs]

\* The LV declarations of manifest.dm in the order validate_lv_size visits them
RECURSIVE all_lvs(_)
all_lvs(dm) ==
    IF dm = <<>> THEN <<>>
    ELSE (IF Head(dm).kind = "Lvm" THEN Head(dm).lvs ELSE <<>>) \o all_lvs(Tail(dm))

\* run has parsed the manifest and is at its call of validate
\* No InstallError
NoError == [kind |-> "None", action_failed |-> "", actions_performed |-> <<>>]

\* apply_manifest has not reached its device mappers
ApplyIdle ==
    /\ dm_at = 0
    /\ dms_actions = <<>>
    /\ dm_actions = <<>>
    /\ executed = <<>>
    /\ install_error = NoError

\* No report is serialized and no hook command is parsed
HookIdle ==
    /\ json = <<>>
    /\ cmd = <<>>
    /\ qn = [kind |-> "None", interface |-> "", dns_upstream |-> None, print_only |-> FALSE]

RunAtValidate ==
    /\ args = [no_validate |-> FALSE]
    /\ run_pc = "validate"
    /\ run_manifest = None
    /\ validated = Running
    /\ stage = 0
    /\ actions = <<>>
    /\ report = Running
    /\ ApplyIdle
    /\ exit_code = -1
    /\ stderr = ""
    /\ HookIdle

Init ==
    /\ manifest = [disks |-> <<>>, dm |-> <<>>, rootfs |-> None,
                   filesystems |-> <<>>, swap |-> <<>>]
    /\ sys_fs_devs \in SysFsDevs
    /\ \E snap \in Snapshots :
         /\ files = snap.files
         /\ sys_fs_ready_devs = snap.ready
         /\ sys_lvms = snap.lvms
    /\ valids = <<>>
    /\ fs_ready_devs = {}
    /\ caller = [sys_fs_ready_devs |-> sys_fs_ready_devs, sys_lvms |-> sys_lvms]
    /\ RunAtValidate
    /\ pc = "disks"
    /\ sub = "entry"
    /\ last = NoDecl
    /\ result = Running

\* An error that is recorded while validation goes on
Finish_continue(r, next) ==
    pc' = next /\ result' = r

\* return Err(..) when r is an error, else go on at position next
Finish(r, next) ==
    IF r = Ok THEN pc' = next /\ result' = Running
    ELSE pc' = "done" /\ result' = r

\* One iteration of the loop over manifest.disks
DiskStep ==
    /\ pc = "disks"
    /\ Len(manifest.disks) < MaxDisks
    /\ \E disk \in DiskDecls :
         LET out == validate_disk(disk, valids) IN
         /\ manifest' = [manifest EXCEPT !.disks = Append(@, disk)]
         /\ valids' = out.valids
         /\ last' = [op |-> "disk", decl |-> disk]
         /\ Finish(out.res, "disks")
    /\ UNCHANGED <<run_vars, caller, files, sys_fs_devs, sys_fs_ready_devs, sys_lvms,
                   fs_ready_devs, sub>>

\* End of the loop over manifest.disks
DisksDone ==
    /\ pc = "disks"
    /\ pc' = "lv_size"
    /\ last' = NoDecl
    /\ UNCHANGED <<manifest, run_vars, caller, files, sys_fs_devs, sys_fs_ready_devs,
                   sys_lvms, valids, fs_ready_devs, sub, result>>

\* collect_valids: validate_lv_size(dms)?  Either the LV declarations of the
\* manifest are a list the function rejects, or they are one it passes.
LvSizeStep ==
    /\ pc = "lv_size"
    /\ \/ /\ pc' = "dm"
          /\ UNCHANGED <<manifest, result>>
       \/ \E lvs \in SeqsUpTo(LvDecls, MaxLvs) :
            \E r \in validate_lv_size(lvs) :
                /\ r # Ok
                /\ manifest' = [manifest EXCEPT !.dm = <<LvmOf(<<>>, <<>>, lvs)>>]
                /\ result' = r
                /\ pc' = "done"
    /\ last' = [op |-> "lv_size"]
    /\ UNCHANGED <<run_vars, caller, files, sys_fs_devs, sys_fs_ready_devs, sys_lvms, valids,
                   fs_ready_devs, sub>>

-----------------------------------------------------------------------------
(* DM stage: the loop of collect_valids over manifest.dm.  A declaration    *)
(* joins the current LVM entry when the order PV -> VG -> LV allows it and  *)
(* opens a new entry otherwise.                                            *)

\* Number of LUKS, PV, VG and LV declarations read so far
RECURSIVE DmDecls(_)
DmDecls(dm) ==
    IF dm = <<>> THEN 0
    ELSE (IF Head(dm).kind = "Luks" THEN 1
          ELSE Len(Head(dm).pvs) + Len(Head(dm).vgs) + Len(Head(dm).lvs))
         + DmDecls(Tail(dm))

VgDecls ==
    { [name |-> n, pvs |-> ps] :
        n \in VgNames, ps \in SeqsUpTo(VgPvs, MaxVgPvs) \ {<<>>} }

\* manifest.dm with a declaration added to field f of the current LVM entry
\* (when sub is one of the positions in joins) or to a new entry
WithDecl(dm, f, decl, joins) ==
    IF sub \in joins
    THEN [dm EXCEPT ![Len(dm)][f] = Append(@, decl)]
    ELSE Append(dm, [LvmOf(<<>>, <<>>, <<>>) EXCEPT ![f] = <<decl>>])

\* DM declarations are explored for the manifests whose disks are all /dev/sda
DmScope ==
    \A i \in 1..Len(manifest.disks) :
        manifest.disks[i].device = "/dev/sda" /\ Len(manifest.disks[i].partitions) = 1

\* What every DM step does with the outcome of its validator
DmApply(out, decl) ==
    /\ valids' = out.valids
    /\ sys_fs_ready_devs' = out.ready
    /\ sys_lvms' = out.lvms
    /\ last' = decl
    /\ Finish(out.res, "dm")
    /\ UNCHANGED <<run_vars, caller, files, sys_fs_devs, fs_ready_devs>>

\* Dm::Luks(luks) => collect_valid_luks
LuksStep ==
    /\ pc = "dm"
    /\ DmScope
    /\ DmDecls(manifest.dm) < MaxDmDecls
    /\ \E luks \in LuksDecls :
         /\ manifest' = [manifest EXCEPT !.dm = Append(@, LuksEntry(luks))]
         /\ DmApply(collect_valid_luks(luks, sys_fs_ready_devs, sys_lvms, valids),
                    [op |-> "luks", decl |-> luks])
    /\ sub' = "entry"

\* for pv_path in pvs => collect_valid_pv
PvStep ==
    /\ pc = "dm"
    /\ DmScope
    /\ DmDecls(manifest.dm) < MaxDmDecls
    /\ \E pv_path \in DmBases :
         /\ manifest' = [manifest EXCEPT !.dm = WithDecl(@, "pvs", pv_path, {"pv"})]
         /\ DmApply(collect_valid_pv(pv_path, sys_fs_ready_devs, sys_lvms, valids),
                    [op |-> "pv", decl |-> pv_path])
    /\ sub' = "pv"

\* for vg in vgs => collect_valid_vg
VgStep ==
    /\ pc = "dm"
    /\ DmScope
    /\ DmDecls(manifest.dm) < MaxDmDecls
    /\ \E vg \in VgDecls :
         /\ manifest' = [manifest EXCEPT !.dm = WithDecl(@, "vgs", vg, {"pv", "vg"})]
         /\ DmApply(collect_valid_vg(vg, sys_fs_ready_devs, sys_lvms, valids),
                    [op |-> "vg", decl |-> vg])
    /\ sub' = "vg"

\* for lv in lvs => lv::collect_valid
LvStep ==
    /\ pc = "dm"
    /\ DmScope
    /\ DmDecls(manifest.dm) < MaxDmDecls
    /\ Len(all_lvs(manifest.dm)) < MaxLvs
    /\ \E lv \in LvDecls :
         /\ Ok \in validate_lv_size(Append(all_lvs(manifest.dm), lv))
         /\ manifest' = [manifest EXCEPT !.dm = WithDecl(@, "lvs", lv, {"pv", "vg", "lv"})]
         /\ DmApply(lv_collect_valid(lv, sys_fs_ready_devs, sys_lvms, valids),
                    [op |-> "lv", decl |-> lv])
    /\ sub' = "lv"

\* End of the loop over manifest.dm; collection of fs_ready_devs
DmDone ==
    /\ pc = "dm"
    /\ IF not_fs_ready(sys_fs_ready_devs) # {}
       THEN /\ \E d \in not_fs_ready(sys_fs_ready_devs) : result' = Err("NayiRsBug", d)
            /\ pc' = "done"
            /\ UNCHANGED fs_ready_devs
       ELSE IF \E q \in Range(valids) : q = <<>>
       THEN /\ result' = Err("Panic", "v is missing top-most device")
            /\ pc' = "done"
            /\ UNCHANGED fs_ready_devs
       ELSE /\ fs_ready_devs' = collect_fs_ready(sys_fs_ready_devs, sys_lvms, valids)
            /\ pc' = "rootfs"
            /\ UNCHANGED result
    /\ last' = NoDecl
    /\ UNCHANGED <<manifest, run_vars, caller, files, sys_fs_devs, sys_fs_ready_devs,
                   sys_lvms, valids, sub>>

\* The rootfs, filesystem and swap checks without fs_ready_devs.remove
FsApply_keep(dev, what, next) ==
    /\ IF dev \in fs_ready_devs
       THEN /\ pc' = next
            /\ UNCHANGED <<result, fs_ready_devs>>
       ELSE /\ result' = Err("BadManifest", dev)
            /\ pc' = "done"
            /\ UNCHANGED fs_ready_devs
    /\ last' = [op |-> what, decl |-> dev]
    /\ UNCHANGED <<run_vars, caller, files, sys_fs_devs, sys_fs_ready_devs,
                   sys_lvms, valids, sub>>

\* What the rootfs, filesystem and swap checks do with device dev
FsApply(dev, what, next) ==
    /\ IF dev \in fs_ready_devs
       THEN /\ fs_ready_devs' = fs_ready_devs \ {dev}
            /\ pc' = next
            /\ UNCHANGED result
       ELSE /\ result' = Err("BadManifest", dev)
            /\ pc' = "done"
            /\ UNCHANGED fs_ready_devs
    /\ last' = [op |-> what, decl |-> dev]
    /\ UNCHANGED <<run_vars, caller, files, sys_fs_devs, sys_fs_ready_devs,
                   sys_lvms, valids, sub>>

RootfsStep ==
    /\ pc = "rootfs"
    /\ \E dev \in FsDevices :
         /\ manifest' = [manifest EXCEPT !.rootfs = Some(dev)]
         /\ FsApply(dev, "rootfs", "filesystems")

FsStep ==
    /\ pc = "filesystems"
    /\ Len(manifest.filesystems) < MaxFs
    /\ DmDecls(manifest.dm) <= MaxFsDmDecls
    /\ \E dev \in FsDevices :
         /\ manifest' = [manifest EXCEPT !.filesystems = Append(@, dev)]
         /\ FsApply(dev, "fs", "filesystems")

FsDone ==
    /\ pc = "filesystems"
    /\ pc' = "swap"
    /\ last' = NoDecl
    /\ UNCHANGED <<manifest, run_vars, caller, files, sys_fs_devs, sys_fs_ready_devs,
                   sys_lvms, valids, fs_ready_devs, sub, result>>

SwapStep ==
    /\ pc = "swap"
    /\ Len(manifest.swap) < MaxFs
    /\ DmDecls(manifest.dm) <= MaxFsDmDecls
    /\ \E dev \in FsDevices :
         /\ manifest' = [manifest EXCEPT !.swap = Append(@, dev)]
         /\ FsApply(dev, "swap", "swap")

\* Ok(())
SwapDone ==
    /\ pc = "swap"
    /\ pc' = "done"
    /\ result' = Ok
    /\ last' = NoDecl
    /\ UNCHANGED <<manifest, run_vars, caller, files, sys_fs_devs, sys_fs_ready_devs,
                   sys_lvms, valids, fs_ready_devs, sub>>

Next ==
    \/ DiskStep
    \/ DisksDone
    \/ LvSizeStep
    \/ LuksStep
    \/ PvStep
    \/ VgStep
    \/ LvStep
    \/ DmDone
    \/ RootfsStep
    \/ FsStep
    \/ FsDone
    \/ SwapStep
    \/ SwapDone

Spec == Init /\ [][Next]_vars

-----------------------------------------------------------------------------
(* validate_lv_size on its own, at the point where collect_valids calls it:  *)
(* the disk stage has passed, the manifest's LV declarations are drawn as a  *)
(* whole, in one LVM entry or split over two, and the function is applied    *)

\* LV declarations in a manifest given to validate_lv_size
MaxRuleLvs == 3

\* The disks of the manifests given to validate_lv_size
RuleDisks == {<<>>, << [device |-> "/dev/sda", partitions |-> <<Partition>>] >>}

InitLvSize ==
    /\ \E lvs \in SeqsUpTo(LvDecls, MaxRuleLvs) :
         \E cut \in 0..Len(lvs) :
            \E disks \in RuleDisks :
                /\ manifest = [disks |-> disks,
                               dm |-> IF cut = Len(lvs)
                                      THEN <<LvmOf(<<>>, <<>>, lvs)>>
                                      ELSE <<LvmOf(<<>>, <<>>, SubSeq(lvs, 1, cut)),
                                             LvmOf(<<>>, <<>>, SubSeq(lvs, cut + 1, Len(lvs)))>>,
                               rootfs |-> None, filesystems |-> <<>>, swap |-> <<>>]
                /\ valids = [i \in 1..Len(disks) |->
                                << BlockDev(disks[i].device, TYPE_DISK),
                                   BlockDev(partition_name(disks[i].device, 1), TYPE_PART) >>]
    /\ sys_fs_devs \in SysFsDevs
    /\ \E snap \in Snapshots :
         /\ files = snap.files
         /\ sys_fs_ready_devs = snap.ready
         /\ sys_lvms = snap.lvms
    /\ fs_ready_devs = {}
    /\ caller = [sys_fs_ready_devs |-> sys_fs_ready_devs, sys_lvms |-> sys_lvms]
    /\ RunAtValidate
    /\ pc = "lv_size"
    /\ sub = "entry"
    /\ last = NoDecl
    /\ result = Running

\* validate_lv_size(dms)?
ValidateLvSize ==
    /\ pc = "lv_size"
    /\ \E r \in validate_lv_size(all_lvs(manifest.dm)) :
         /\ result' = IF r = Ok THEN Running ELSE r
         /\ pc' = IF r = Ok THEN "dm" ELSE "done"
    /\ last' = [op |-> "lv_size"]
    /\ UNCHANGED <<manifest, run_vars, caller, files, sys_fs_devs, sys_fs_ready_devs, sys_lvms,
                   valids, fs_ready_devs, sub>>

SpecLvSize == InitLvSize /\ [][ValidateLvSize]_vars

-----------------------------------------------------------------------------
(* collect_valid_luks on its own, over the sys_lvms maps a scanner can hand  *)
(* over: well-formed paths PV, PV -> VG, PV -> VG -> LV, emptied paths, and  *)
(* paths that break the PV -> VG -> LV shape                                 *)

\* Paths under one key of sys_lvms
MaxLuksPaths == 2

\* The shapes of a sys_lvms path under the key pv
LuksPathShapes(pv) ==
    { <<>>,
      PvOnly(pv),
      PvVg(pv, "/dev/vg1"),
      PvVgLv(pv, "/dev/vg1", "/dev/vg1/lv0"),
      <<BlockDev("/dev/vg1/lv0", TYPE_LV)>>,
      <<BlockDev(pv, TYPE_PV), BlockDev("/dev/vg1/lv0", TYPE_LV)>> }

LuksSysLvms ==
    { << LvmEntry("/dev/sdc", ps) >> :
        ps \in SeqsUpTo(LuksPathShapes("/dev/sdc"), MaxLuksPaths) \ {<<>>} }
    \cup { << LvmEntry("/dev/sdc", <<p>>), LvmEntry("/dev/sdd", <<q>>) >> :
             p \in LuksPathShapes("/dev/sdc"), q \in LuksPathShapes("/dev/sdd") }

\* The LUKS declarations given to collect_valid_luks
LuksRuleDecls ==
    { [name |-> n, device |-> d] :
        n \in {"cr", "cs"},
        d \in {"/dev/vg1/lv0", "/dev/vg1", "/dev/sdc", "/dev/sdb", "/dev/sde"} }

LuksHostFiles == FixedFiles \cup {"/dev/sdb", "/dev/sdc", "/dev/sdd", "/dev/vg1/lv0"}

InitLuks ==
    /\ manifest = [disks |-> <<>>, dm |-> <<>>, rootfs |-> None,
                   filesystems |-> <<>>, swap |-> <<>>]
    /\ sys_fs_devs \in SysFsDevs
    /\ files = LuksHostFiles
    /\ sys_fs_ready_devs \in {ReadyFixed, WithReady(ReadyFixed, "/dev/sdb", TYPE_DISK)}
    /\ sys_lvms \in LuksSysLvms
    /\ valids = <<>>
    /\ fs_ready_devs = {}
    /\ caller = [sys_fs_ready_devs |-> sys_fs_ready_devs, sys_lvms |-> sys_lvms]
    /\ RunAtValidate
    /\ pc = "dm"
    /\ sub = "entry"
    /\ last = NoDecl
    /\ result = Running

\* Dm::Luks(luks) => collect_valid_luks, for one declaration
ValidateLuks ==
    /\ pc = "dm"
    /\ \E luks \in LuksRuleDecls :
         LET out == collect_valid_luks(luks, sys_fs_ready_devs, sys_lvms, valids) IN
         /\ manifest' = [manifest EXCEPT !.dm = Append(@, LuksEntry(luks))]
         /\ valids' = out.valids
         /\ sys_fs_ready_devs' = out.ready
         /\ sys_lvms' = out.lvms
         /\ last' = [op |-> "luks", decl |-> luks]
         /\ result' = IF out.res = Ok THEN Running ELSE out.res
    /\ pc' = "done"
    /\ UNCHANGED <<run_vars, caller, files, sys_fs_devs, fs_ready_devs, sub>>

SpecLuks == InitLuks /\ [][ValidateLuks]_vars

-----------------------------------------------------------------------------
(* validate called again after an error: the user corrects the manifest and  *)
(* validate_blk gets the caller's maps by value once more                    *)

\* The hosts of the runs that are retried: those without LVM, and those
\* whose one PV carries a VG and an LV
RetrySnapshots ==
    { snap \in Snapshots :
        snap.lvms = <<>> \/ (Len(snap.lvms) = 1 /\ snap.lvms \in SysLvFull) }

InitRetry ==
    /\ Init
    /\ \E snap \in RetrySnapshots :
         /\ files = snap.files
         /\ sys_fs_ready_devs = snap.ready
         /\ sys_lvms = snap.lvms

\* A map parameter taken by reference: the callee's map of the last call
by_value_shared(held, used) == used

\* A map parameter of validate_blk, taken by value: the callee starts from
\* what the caller holds, whatever an earlier call did to its own map
by_value(held, used) == held

\* validate(manifest) once more, after validate_blk returned an error
Retry ==
    /\ pc = "done"
    /\ result.kind \notin {"Ok", "Running"}
    /\ manifest' = [disks |-> <<>>, dm |-> <<>>, rootfs |-> None,
                    filesystems |-> <<>>, swap |-> <<>>]
    /\ sys_fs_ready_devs' = by_value(caller.sys_fs_ready_devs, sys_fs_ready_devs)
    /\ sys_lvms' = by_value(caller.sys_lvms, sys_lvms)
    /\ valids' = <<>>
    /\ fs_ready_devs' = {}
    /\ pc' = "disks"
    /\ sub' = "entry"
    /\ last' = NoDecl
    /\ result' = Running
    /\ UNCHANGED <<run_vars, caller, files, sys_fs_devs>>

NextRetry ==
    \/ Next
    \/ Retry

SpecRetry == InitRetry /\ [][NextRetry]_vars

-----------------------------------------------------------------------------
(* run: read and parse the manifest, validate it unless told not to, update  *)
(* it and apply it: one stage of apply_manifest at a step, and the stage of  *)
(* the device mappers one command at a step                                  *)

\* The device mapper entries of the manifests run parses
RunDmEntries ==
    { [kind |-> "Luks", pvs |-> <<>>, vgs |-> <<>>, lvs |-> <<>>],
      [kind |-> "Lvm", pvs |-> <<"/dev/sdb">>, vgs |-> <<"vg0">>, lvs |-> <<"lv0">>],
      [kind |-> "Lvm", pvs |-> <<"/dev/sdc", "/dev/sdd">>, vgs |-> <<>>, lvs |-> <<>>] }

\* Device mapper entries in a manifest run parses
MaxRunDms == 2

\* The manifests run parses.  An empty sequence stands for an absent section.
RunManifests ==
    [ disks : {<<>>, <<"/dev/sda">>},
      device_mappers : SeqsUpTo(RunDmEntries, MaxRunDms),
      rootfs : {"ext4", "btrfs"},
      filesystems : {<<>>, <<"btrfs">>},
      pacstraps : {{}, {"vim"}},
      chroot : {<<>>, <<"passwd">>},
      postinstall : {<<>>, <<"sync">>} ]

\* What validate may return to run
ValidateReturns ==
    {Ok} \cup { Err(k, "") : k \in {"BadManifest", "NoSuchDevice", "NayiRsBug"} }

\* update_manifest: btrfs-progs for a Btrfs filesystem, lvm2 for an LVM entry
update_manifest(m) ==
    LET has_btrfs == m.rootfs = "btrfs" \/ \E n \in 1..Len(m.filesystems) : m.filesystems[n] = "btrfs"
        has_lvm == \E n \in 1..Len(m.device_mappers) : m.device_mappers[n].kind = "Lvm"
    IN  [m EXCEPT !.pacstraps = @ \cup (IF has_btrfs THEN {"btrfs-progs"} ELSE {})
                                  \cup (IF has_lvm THEN {"lvm2"} ELSE {})]

\* The stages of apply_manifest with the file system mounted before it is made
ApplyStages_mount_first ==
    << "ApplyDisks", "ApplyDms", "MountRootFs", "ApplyFilesystems", "MkdirRootFs",
       "ApplyRootfs", "Mkdir", "MountFilesystems", "InstallPackages", "AliRoutine",
       "AliArchChroot", "UserArchChroot", "UserPostInstall" >>

\* The stages of apply_manifest in their order, each named by the action
\* that stands for it
ApplyStages ==
    << "ApplyDisks", "ApplyDms", "ApplyRootfs", "ApplyFilesystems", "MkdirRootFs",
       "MountRootFs", "Mkdir", "MountFilesystems", "InstallPackages", "AliRoutine",
       "AliArchChroot", "UserArchChroot", "UserPostInstall" >>

\* The stages apply_manifest goes through for a manifest
stage_applies(m, n) ==
    CASE ApplyStages[n] = "ApplyDisks" -> m.disks # <<>>
      [] ApplyStages[n] = "ApplyDms" -> m.device_mappers # <<>>
      [] ApplyStages[n] \in {"ApplyFilesystems", "Mkdir", "MountFilesystems"} -> m.filesystems # <<>>
      [] ApplyStages[n] = "UserArchChroot" -> m.chroot # <<>>
      [] ApplyStages[n] = "UserPostInstall" -> m.postinstall # <<>>
      [] OTHER -> TRUE

\* The first stage after stage n that the manifest has, or one past the last
RECURSIVE next_stage(_, _)
next_stage(m, n) ==
    IF n + 1 > Len(ApplyStages) THEN n + 1
    ELSE IF stage_applies(m, n + 1) THEN n + 1
    ELSE next_stage(m, n + 1)

ActionOf(a, packages, device) == [action |-> a, packages |-> packages, device |-> device]

\* The action a stage pushes when it succeeded
stage_action(m, n) ==
    IF ApplyStages[n] = "InstallPackages"
    THEN ActionOf(ApplyStages[n], {"base"} \cup m.pacstraps, "")
    ELSE ActionOf(ApplyStages[n], {}, "")

\* The commands of an LVM entry with the VGs created before the PVs
dm_commands_vg_first(dm) ==
    [i \in 1..Len(dm.vgs) |-> ActionOf("CreateDmLvmVg", {}, dm.vgs[i])]
    \o [i \in 1..Len(dm.pvs) |-> ActionOf("CreateDmLvmPv", {}, dm.pvs[i])]
    \o [i \in 1..Len(dm.lvs) |-> ActionOf("CreateDmLvmLv", {}, dm.lvs[i])]

\* apply_dm on Dm::Lvm: the commands it runs, each named by the action it
\* pushes after the command: the PVs, then the VGs, then the LVs
dm_commands(dm) ==
    [i \in 1..Len(dm.pvs) |-> ActionOf("CreateDmLvmPv", {}, dm.pvs[i])]
    \o [i \in 1..Len(dm.vgs) |-> ActionOf("CreateDmLvmVg", {}, dm.vgs[i])]
    \o [i \in 1..Len(dm.lvs) |-> ActionOf("CreateDmLvmLv", {}, dm.lvs[i])]

\* No entry is a stub
is_stub_never(dm) == FALSE

\* apply_dm on Dm::Luks returns NotImplemented
is_stub(dm) == dm.kind = "Luks"

\* apply_dms: actions_performed of its InstallError is its own vector; the
\* vector of the apply_dm that failed is dropped with it
dms_performed(dms, dm) == dms

\* The InstallError of apply_manifest around the InstallError of apply_dms
dms_error(cause, performed, dms, dm) ==
    [kind |-> "InstallError", action_failed |-> "ApplyDms", actions_performed |-> performed,
     error |-> [kind |-> "InstallError", action_failed |-> "ApplyDm",
                actions_performed |-> dms_performed(dms, dm),
                error |-> cause]]

\* The InstallError of apply_manifest for a stage whose command failed
stage_error(failed, performed) ==
    [kind |-> "InstallError", action_failed |-> failed, actions_performed |-> performed]

InitRun ==
    /\ manifest = [disks |-> <<>>, dm |-> <<>>, rootfs |-> None,
                   filesystems |-> <<>>, swap |-> <<>>]
    /\ sys_fs_devs \in SysFsDevs
    /\ files = FixedFiles
    /\ sys_fs_ready_devs = ReadyFixed
    /\ sys_lvms = <<>>
    /\ caller = [sys_fs_ready_devs |-> sys_fs_ready_devs, sys_lvms |-> sys_lvms]
    /\ valids = <<>>
    /\ fs_ready_devs = {}
    /\ pc = "disks"
    /\ sub = "entry"
    /\ last = NoDecl
    /\ result = Running
    /\ args \in [no_validate : BOOLEAN]
    /\ run_pc = "read"
    /\ run_manifest = None
    /\ validated = Running
    /\ stage = 0
    /\ actions = <<>>
    /\ report = Running
    /\ ApplyIdle
    /\ exit_code = -1
    /\ stderr = ""
    /\ HookIdle

\* What no step of run changes
RunFrame ==
    UNCHANGED <<manifest, files, sys_fs_devs, sys_fs_ready_devs, sys_lvms, caller,
                valids, fs_ready_devs, pc, sub, last, result, args, json, cmd, qn>>

\* validate's error passed over: run goes on whatever validate returned
after_validate_any(r) == "update"

\* validation::validate(..)?: an error ends run
after_validate(r) == IF r = Ok THEN "update" ELSE "done"

\* std::fs::read_to_string(manifest_file) and Manifest::from_yaml
RunParse ==
    /\ run_pc = "read"
    /\ \/ /\ \E e \in {"NoSuchFile", "BadManifest"} : report' = Err(e, "manifest_file")
          /\ run_pc' = "done"
          /\ UNCHANGED run_manifest
       \/ /\ \E m \in RunManifests : run_manifest' = m
          /\ run_pc' = IF args.no_validate THEN "update" ELSE "validate"
          /\ UNCHANGED report
    /\ UNCHANGED <<validated, stage, actions, dm_at, dms_actions, dm_actions, executed,
                   install_error, exit_code, stderr>>
    /\ RunFrame

\* if !args.no_validate { validation::validate(&manifest, ..)?; }
RunValidate ==
    /\ run_pc = "validate"
    /\ \E r \in ValidateReturns :
         /\ validated' = r
         /\ run_pc' = after_validate(r)
         /\ report' = IF after_validate(r) = "done" THEN r ELSE report
    /\ UNCHANGED <<run_manifest, stage, actions, dm_at, dms_actions, dm_actions, executed,
                   install_error, exit_code, stderr>>
    /\ RunFrame

\* update_manifest(&mut manifest), then the call of apply_manifest
RunUpdate ==
    /\ run_pc = "update"
    /\ run_manifest' = update_manifest(run_manifest)
    /\ run_pc' = "apply"
    /\ UNCHANGED <<validated, stage, actions, report, dm_at, dms_actions, dm_actions,
                   executed, install_error, exit_code, stderr>>
    /\ RunFrame

\* One stage of apply_manifest: its commands succeed and its action is pushed,
\* or a command fails and InstallError is returned; the stage of the device
\* mappers calls apply_dms; Ok(actions) after the last stage
ApplyStep ==
    /\ run_pc = "apply"
    /\ LET n == next_stage(run_manifest, stage) IN
       IF n > Len(ApplyStages)
       THEN /\ run_pc' = "done"
            /\ report' = Ok
            /\ UNCHANGED <<stage, actions, dm_at, executed, install_error>>
       ELSE IF ApplyStages[n] = "ApplyDms"
       THEN /\ run_pc' = "dms"
            /\ dm_at' = 1
            /\ UNCHANGED <<stage, actions, report, executed, install_error>>
       ELSE \/ /\ stage' = n
               /\ actions' = Append(actions, stage_action(run_manifest, n))
               /\ executed' = Append(executed, stage_action(run_manifest, n))
               /\ UNCHANGED <<run_pc, report, dm_at, install_error>>
            \/ /\ run_pc' = "done"
               /\ report' = Err("InstallError", ApplyStages[n])
               /\ install_error' = stage_error(ApplyStages[n], actions)
               /\ UNCHANGED <<stage, actions, dm_at, executed>>
    /\ UNCHANGED <<run_manifest, validated, dms_actions, dm_actions, exit_code, stderr>>
    /\ RunFrame

\* apply_dms returns Err: apply_manifest wraps it and run returns it
DmsFail(cause) ==
    /\ run_pc' = "done"
    /\ report' = Err("InstallError", "ApplyDms")
    /\ install_error' = dms_error(cause, actions, dms_actions, dm_actions)
    /\ UNCHANGED <<stage, actions, dm_at, dms_actions, dm_actions, executed>>

\* One step of apply_dms: the next command of apply_dm on the entry at dm_at,
\* the end of apply_dm, or the end of apply_dms
ApplyDmStep ==
    /\ run_pc = "dms"
    /\ IF dm_at > Len(run_manifest.device_mappers)
       THEN /\ actions' = actions \o dms_actions
            /\ stage' = next_stage(run_manifest, stage)
            /\ run_pc' = "apply"
            /\ dm_at' = 0
            /\ dms_actions' = <<>>
            /\ UNCHANGED <<report, dm_actions, executed, install_error>>
       ELSE LET dm == run_manifest.device_mappers[dm_at]
                cmds == dm_commands(dm)
                k == Len(dm_actions) + 1
            IN  IF is_stub(dm) THEN DmsFail("NotImplemented")
                ELSE IF k > Len(cmds)
                THEN /\ dms_actions' = dms_actions \o dm_actions
                     /\ dm_actions' = <<>>
                     /\ dm_at' = dm_at + 1
                     /\ UNCHANGED <<run_pc, stage, actions, report, executed, install_error>>
                ELSE \/ /\ executed' = Append(executed, cmds[k])
                        /\ dm_actions' = Append(dm_actions, cmds[k])
                        /\ UNCHANGED <<run_pc, stage, actions, report, dm_at, dms_actions,
                                       install_error>>
                     \/ DmsFail("CmdFailed")
    /\ UNCHANGED <<run_manifest, validated, exit_code, stderr>>
    /\ RunFrame

\* main always returns Ok(())
main_exit_code(r) == 0

\* main: the outcome of run is printed, to stderr when it is an error
MainExit ==
    /\ run_pc = "done"
    /\ run_pc' = "exited"
    /\ stderr' = IF report = Ok THEN "" ELSE "failed to apply manifest"
    /\ exit_code' = main_exit_code(report)
    /\ UNCHANGED <<run_manifest, validated, stage, actions, report, dm_at, dms_actions,
                   dm_actions, executed, install_error>>
    /\ RunFrame

NextRun ==
    \/ RunParse
    \/ RunValidate
    \/ RunUpdate
    \/ ApplyStep
    \/ ApplyDmStep
    \/ MainExit

SpecRun == InitRun /\ [][NextRun]_vars

-----------------------------------------------------------------------------
(* Report::to_json on its own: a report with a list of actions is drawn and  *)
(* its actions are serialized, each under the tag of its variant             *)

\* The block validation and the pipeline of run are not part of the step
OutsideRun ==
    /\ manifest = [disks |-> <<>>, dm |-> <<>>, rootfs |-> None,
                   filesystems |-> <<>>, swap |-> <<>>]
    /\ sys_fs_devs \in SysFsDevs
    /\ files = FixedFiles
    /\ sys_fs_ready_devs = ReadyFixed
    /\ sys_lvms = <<>>
    /\ caller = [sys_fs_ready_devs |-> sys_fs_ready_devs, sys_lvms |-> sys_lvms]
    /\ valids = <<>>
    /\ fs_ready_devs = {}
    /\ pc = "disks"
    /\ sub = "entry"
    /\ last = NoDecl
    /\ result = Running
    /\ args = [no_validate |-> FALSE]
    /\ run_manifest = None
    /\ validated = Running
    /\ stage = 0
    /\ ApplyIdle
    /\ exit_code = -1
    /\ stderr = ""

\* The variants of Action
ActionVariants ==
    { "ApplyDisks", "ApplyDms", "PrepareDisk", "PrepareDm", "CreateRootFs",
      "ApplyFilesystems", "MkdirRootFs", "MountRootFs", "Mkdir", "MountFilesystems",
      "CreatePartitionTable", "CreatePartition", "SetPartitionType", "CreateDmLuks",
      "CreateDmLvmPv", "CreateDmLvmVg", "CreateDmLvmLv", "CreateFs", "MountFs",
      "InstallPackages", "AliArchChroot", "GenFstab", "SetHostname", "SetTimezone",
      "LocaleGen", "LocaleConf", "RunCommandsChroot", "RunCommandsPostInstall" }

\* #[serde(rename = ..)]: the tag under which a variant is serialized
serde_tag(v) ==
    CASE v = "ApplyDisks" -> "applyDisks"
      [] v = "ApplyDms" -> "applyDms"
      [] v = "PrepareDisk" -> "prepareDisk"
      [] v = "PrepareDm" -> "prepareDm"
      [] v = "CreateRootFs" -> "createRootFs"
      [] v = "ApplyFilesystems" -> "applyFilesystems"
      [] v = "MkdirRootFs" -> "mkdirRootFs"
      [] v = "MountRootFs" -> "mountRootFs"
      [] v = "Mkdir" -> "mkdirFs"
      [] v = "MountFilesystems" -> "mountFilesystems"
      [] v = "CreatePartitionTable" -> "createPartitionTable"
      [] v = "CreatePartition" -> "createPartition"
      [] v = "SetPartitionType" -> "setParitionType"
      [] v = "CreateDmLuks" -> "createDmLuks"
      [] v = "CreateDmLvmPv" -> "createLvmPv"
      [] v = "CreateDmLvmVg" -> "createLvmVg"
      [] v = "CreateDmLvmLv" -> "createLvmLv"
      [] v = "CreateFs" -> "createFilesystem"
      [] v = "MountFs" -> "mountFilesystem"
      [] v = "InstallPackages" -> "installPackages"
      [] v = "AliArchChroot" -> "AliArchChroot"
      [] v = "GenFstab" -> "genfstab"
      [] v = "SetHostname" -> "setHostname"
      [] v = "SetTimezone" -> "setTimezone"
      [] v = "LocaleGen" -> "localeGen"
      [] v = "LocaleConf" -> "localeConf"
      [] v = "RunCommandsChroot" -> "commandsChroot"
      [] v = "RunCommandsPostInstall" -> "commandsPostInstall"

\* Actions in a report that is serialized
MaxLogLen == 2

InitActionLog ==
    /\ OutsideRun
    /\ run_pc = "done"
    /\ report = Ok
    /\ \E log \in SeqsUpTo(ActionVariants, MaxLogLen) :
         actions = [i \in 1..Len(log) |-> ActionOf(log[i], {}, "")]
    /\ HookIdle

\* Report::to_json
ToJson ==
    /\ run_pc = "done"
    /\ json' = [i \in 1..Len(actions) |-> serde_tag(actions[i].action)]
    /\ run_pc' = "json"
    /\ UNCHANGED <<manifest, files, sys_fs_devs, sys_fs_ready_devs, sys_lvms, caller,
                   valids, fs_ready_devs, pc, sub, last, result>>
    /\ UNCHANGED <<args, run_manifest, validated, stage, actions, report, dm_at,
                   dms_actions, dm_actions, executed, install_error, exit_code, stderr,
                   cmd, qn>>

SpecActionLog == InitActionLog /\ [][ToJson]_vars

-----------------------------------------------------------------------------
(* parse_quicknet on its own: a hook command is drawn as a sequence of words *)
(* and runs of whitespace, and parsed                                        *)

QUICKNET == "@quicknet"
QUICKNET_PRINT == "@quicknet-print"

\* A run of whitespace in a command; words that stand next to each other are
\* separated by one blank
Blank == " "

\* The words and blanks of the commands given to parse_quicknet
QuicknetWords == {QUICKNET, QUICKNET_PRINT, "#quickmet", "dns", "eth0", "1.1.1.1", Blank}

\* Words and blanks in a command given to parse_quicknet
MaxCmdWords == 5

\* cmd.split_whitespace().collect()
split_whitespace(c) == SelectSeq(c, LAMBDA w : w # Blank)

BadHookCmd == [kind |-> "BadHookCmd", interface |-> "", dns_upstream |-> None, print_only |-> FALSE]
QuickNet(interface, dns_upstream, print_only) ==
    [kind |-> "Ok", interface |-> interface, dns_upstream |-> dns_upstream,
     print_only |-> print_only]

\* Every first word passes for the key
is_quicknet_any(w) == TRUE

\* matches!(*cmd, QUICKNET | QUICKNET_PRINT)
is_quicknet(w) == w \in {QUICKNET, QUICKNET_PRINT}

\* parts is indexed from 0 in the code
parse_quicknet(c) ==
    LET parts == split_whitespace(c)
        l == Len(parts)
        at(i) == parts[i + 1]
        print_only == at(0) = QUICKNET_PRINT
        dns_at == { i \in 0..(l - 1) : at(i) = "dns" }
        dns_keyword_idx == CHOOSE i \in dns_at : \A j \in dns_at : i <= j
    IN  IF l <= 1 THEN BadHookCmd
        ELSE IF ~is_quicknet(at(0)) THEN BadHookCmd
        ELSE IF l = 2
        THEN IF at(1) = "dns" THEN BadHookCmd
             ELSE QuickNet(at(1), None, print_only)
        ELSE IF l = 4
        THEN IF dns_at = {} THEN BadHookCmd
             ELSE IF dns_keyword_idx = 1
             THEN QuickNet(at(3), Some(at(dns_keyword_idx + 1)), print_only)
             ELSE IF dns_keyword_idx = 2
             THEN QuickNet(at(1), Some(at(dns_keyword_idx + 1)), print_only)
             ELSE BadHookCmd
        ELSE BadHookCmd

InitQuicknet ==
    /\ OutsideRun
    /\ run_pc = "hook"
    /\ report = Running
    /\ actions = <<>>
    /\ json = <<>>
    /\ cmd \in SeqsUpTo(QuicknetWords, MaxCmdWords)
    /\ qn = [kind |-> "None", interface |-> "", dns_upstream |-> None, print_only |-> FALSE]

\* let qn = parse_quicknet(cmd_string)
ParseQuicknet ==
    /\ run_pc = "hook"
    /\ qn' = parse_quicknet(cmd)
    /\ run_pc' = "done"
    /\ UNCHANGED <<manifest, files, sys_fs_devs, sys_fs_ready_devs, sys_lvms, caller,
                   valids, fs_ready_devs, pc, sub, last, result>>
    /\ UNCHANGED <<args, run_manifest, validated, stage, actions, report, dm_at,
                   dms_actions, dm_actions, executed, install_error, exit_code, stderr,
                   json, cmd>>

SpecQuicknet == InitQuicknet /\ [][ParseQuicknet]_vars

-----------------------------------------------------------------------------
(* Properties *)

\* The kinds each built node may stand on
EdgeOk(base, node) ==
    /\ node.device_type = TYPE_PART => base.device_type = TYPE_DISK
    /\ node.device_type = TYPE_PV
         => base.device_type \in {TYPE_UNKNOWN, TYPE_DISK, TYPE_PART, TYPE_LUKS}
    /\ node.device_type = TYPE_VG => base.device_type = TYPE_PV
    /\ node.device_type = TYPE_LV => base.device_type = TYPE_VG
    /\ node.device_type = TYPE_LUKS
         => base.device_type \in {TYPE_UNKNOWN, TYPE_DISK, TYPE_PART, TYPE_LV}

KindsOf(path) == [i \in 1..Len(path) |-> path[i].device_type]

Accepted == result.kind = "Ok"

\* C1: for every accepted manifest each path of the store is well-typed:
\* reading base to tip, a Partition stands on a Disk, an LvmPv on a node that
\* satisfies is_pv_base, an LvmVg on an LvmPv, an LvmLv on an LvmVg, and a
\* Luks on a node that satisfies is_luks_base.
C1_StoreWellTyped ==
    Accepted =>
        \A k \in 1..Len(valids) :
            \A i \in 2..Len(valids[k]) : EdgeOk(valids[k][i - 1], valids[k][i])

\* An accepted manifest with a path Disk -> Partition -> PV -> VG -> LV and a
\* path with a LUKS node
C1_Witness ==
    /\ Accepted
    /\ \E k \in 1..Len(valids) :
         KindsOf(valids[k]) = <<TYPE_DISK, TYPE_PART, TYPE_PV, TYPE_VG, TYPE_LV>>
    /\ \E k \in 1..Len(valids) : Last(valids[k]).device_type = TYPE_LUKS

\* The devices rootfs, filesystems and swap name, in the order they are checked
FsNamed == manifest.rootfs \o manifest.filesystems \o manifest.swap

\* The fs-ready tip set as computed at the end of DM processing
TipsAfterDm == collect_fs_ready(sys_fs_ready_devs, sys_lvms, valids)

FsFailed == result.kind \notin {"Running", "Ok"} /\ last.op \in {"rootfs", "fs", "swap"}

\* C2: the devices named by rootfs, filesystems and swap that validation has
\* passed are pairwise distinct members of the fs-ready tip set computed after
\* DM processing, and a device that is not in what remains of that set (it was
\* never there, or an earlier one took it) ends validation with BadManifest.
C2_FsDevicesDistinctReady ==
    LET passed == IF FsFailed THEN SubSeq(FsNamed, 1, Len(FsNamed) - 1) ELSE FsNamed
    IN  /\ \A i \in 1..Len(passed) :
             /\ passed[i] \in TipsAfterDm
             /\ \A j \in 1..(i - 1) : passed[j] # passed[i]
        /\ FsFailed =>
             /\ result = Err("BadManifest", Last(FsNamed))
             /\ \/ Last(FsNamed) \notin TipsAfterDm
                \/ \E j \in 1..(Len(FsNamed) - 1) : FsNamed[j] = Last(FsNamed)

\* An accepted manifest with a rootfs, a filesystem and a swap
C2_Witness == Accepted /\ Len(FsNamed) = 3

\* The VG declarations of manifest.dm in declaration order
RECURSIVE all_vgs(_)
all_vgs(dm) ==
    IF dm = <<>> THEN <<>>
    ELSE (IF Head(dm).kind = "Lvm" THEN Head(dm).vgs ELSE <<>>) \o all_vgs(Tail(dm))

\* Two VG declarations of the manifest list the same PV
SharedPv ==
    LET vgs == all_vgs(manifest.dm) IN
    \E i, j \in 1..Len(vgs) : i < j /\ Range(vgs[i].pvs) \cap Range(vgs[j].pvs) # {}

\* C3: a manifest in which two VG declarations list the same PV is rejected
\* with BadManifest on every host, the hosts that hold the PV in sys_lvms as a
\* PV-only path while the manifest declares it included.
C3_SharedPvRejected == SharedPv => result.kind = "BadManifest"

\* sys_lvms[pv] contains a node of kind LvmVg
BoundPv(pv) ==
    \E i \in 1..Len(sys_lvms) :
        /\ sys_lvms[i].key = pv
        /\ \E j \in 1..Len(sys_lvms[i].paths) :
             \E k \in 1..Len(sys_lvms[i].paths[j]) :
                sys_lvms[i].paths[j][k].device_type = TYPE_VG

\* This step validates a PV declaration of a bound PV
BoundPvDeclared ==
    /\ pc = "dm"
    /\ manifest'.dm # manifest.dm
    /\ last'.op = "pv"
    /\ BoundPv(last'.decl)

\* This step validates a VG declaration that lists a bound PV
BoundPvListed ==
    /\ pc = "dm"
    /\ manifest'.dm # manifest.dm
    /\ last'.op = "vg"
    /\ \E p \in Range(last'.decl.pvs) : BoundPv(p)

\* C4 as stated: declaring a PV that sys_lvms binds to a VG, and listing it in
\* a VG, both return BadManifest and leave the store and sys_lvms unchanged.
C4_BoundPvUnchanged ==
    [][ (BoundPvDeclared \/ BoundPvListed)
          => /\ result'.kind = "BadManifest"
             /\ valids' = valids
             /\ sys_lvms' = sys_lvms ]_vars

\* C4: declaring a PV that sys_lvms binds to a VG, and listing it in a VG,
\* both return BadManifest; PV validation leaves the store and sys_lvms
\* unchanged, and so does VG validation when the bound PV is the first PV
\* the VG lists (the PVs listed before it are validated first and may have
\* extended the store and cleared sys_lvms paths).
C4_BoundPvRejected ==
    [][ /\ BoundPvDeclared
          => /\ result'.kind = "BadManifest"
             /\ valids' = valids
             /\ sys_lvms' = sys_lvms
        /\ BoundPvListed
          => /\ result'.kind = "BadManifest"
             /\ BoundPv(last'.decl.pvs[1]) => (valids' = valids /\ sys_lvms' = sys_lvms)
      ]_vars

\* A VG was rejected for its second PV, bound in sys_lvms, after its first
\* PV had received the VG node in the store
C4_Witness ==
    /\ result.kind = "BadManifest"
    /\ last.op = "vg"
    /\ Len(last.decl.pvs) = 2
    /\ BoundPv(last.decl.pvs[2])
    /\ result.about = last.decl.pvs[2]
    /\ \E k \in 1..Len(valids) :
         /\ Len(valids[k]) >= 2
         /\ Last(valids[k]) = BlockDev(vg_device(last.decl), TYPE_VG)
         /\ valids[k][Len(valids[k]) - 1].device = last.decl.pvs[1]

\* The LUKS and PV declarations of manifest.dm with the base each names
RECURSIVE dm_bases(_)
dm_bases(dm) ==
    IF dm = <<>> THEN <<>>
    ELSE (IF Head(dm).kind = "Luks"
          THEN << [kind |-> "luks", base |-> Head(dm).device] >>
          ELSE [i \in 1..Len(Head(dm).pvs) |-> [kind |-> "pv", base |-> Head(dm).pvs[i]]])
         \o dm_bases(Tail(dm))

\* Two LUKS, or a LUKS and a PV, are declared on one base
TwoDmsOnOneBase ==
    LET u == dm_bases(manifest.dm) IN
    \E i, j \in 1..Len(u) :
        i < j /\ u[i].base = u[j].base /\ "luks" \in {u[i].kind, u[j].kind}

\* C5: a manifest that declares two LUKS volumes, or a LUKS volume and a PV in
\* either order, on the same base device is rejected, whatever sys_fs_ready
\* contains and whether or not the base exists as a file.
C5_OneDmPerBase == TwoDmsOnOneBase => result.kind \notin {"Running", "Ok"}

\* C6: a manifest whose rootfs, filesystem or swap names a device that the
\* manifest also declares as a PV or as the base of a LUKS volume is rejected
\* with BadManifest.
C6_DmBaseNotFsReady ==
    (\E d \in Range(FsNamed) : \E u \in Range(dm_bases(manifest.dm)) : u.base = d)
        => result.kind = "BadManifest"

\* The VG an LV declaration is on, with or without the /dev/ prefix
LvVgOf(lv) ==
    IF Len(lv.vg) >= 5 /\ SubSeq(lv.vg, 1, 5) = "/dev/" THEN lv.vg ELSE "/dev/" \o lv.vg

\* The LVs of a list that omit size and have a later LV on the same VG
UnsizedNotLast(lvs) ==
    { i \in 1..Len(lvs) :
        /\ lvs[i].size = None
        /\ \E j \in (i + 1)..Len(lvs) : LvVgOf(lvs[j]) = LvVgOf(lvs[i]) }

\* C7: with the LVs of each VG taken in declaration order across all LVM
\* entries, the vg field read with or without the /dev/ prefix, the rule
\* rejects with BadManifest naming such an LV every manifest in which an LV
\* other than the last of its VG omits size, and passes every other manifest.
C7_LastLvUnsized ==
    LET lvs == all_lvs(manifest.dm)
        bad == UnsizedNotLast(lvs)
    IN  last.op = "lv_size" =>
            IF bad # {}
            THEN /\ result.kind = "BadManifest"
                 /\ result.about \in { lvs[i].name : i \in bad }
            ELSE pc = "dm" /\ result.kind = "Running"

\* C8: after DM processing of a manifest that passes validation, no device is
\* both the tip of a store path and a key of what remains of sys_fs_ready.
C8_TipsNotReady ==
    Accepted =>
        \A k \in 1..Len(valids) : Last(valids[k]).device \notin DOMAIN sys_fs_ready_devs

\* The partition name the naming scheme gives partition i of a device
SchemeName(device, i) ==
    IF Contains(device, "nvme") \/ Contains(device, "mmcblk")
    THEN device \o "p" \o ToString(i)
    ELSE device \o ToString(i)

\* The paths the disks of a list give the store
RECURSIVE DiskPaths(_)
DiskPaths(disks) ==
    IF disks = <<>> THEN <<>>
    ELSE [i \in 1..Len(Head(disks).partitions) |->
            << BlockDev(Head(disks).device, TYPE_DISK),
               BlockDev(SchemeName(Head(disks).device, i), TYPE_PART) >>]
         \o DiskPaths(Tail(disks))

\* C9: every disk that passes the disk stage with N partitions gives the
\* store exactly the N paths [Disk(device), Partition(name_i)], i = 1..N in
\* order, name_i being device + "p" + i for a device whose name contains
\* "nvme" or "mmcblk" and device + i otherwise; a disk without partitions
\* gives none.
C9_DiskSynthesis ==
    (pc = "disks" /\ result.kind = "Running") => valids = DiskPaths(manifest.disks)

\* An nvme disk with a partition and a disk without partitions passed
C9_Witness ==
    /\ pc = "disks"
    /\ result.kind = "Running"
    /\ \E i \in 1..Len(manifest.disks) :
         /\ manifest.disks[i].device = "/dev/nvme0"
         /\ Len(manifest.disks[i].partitions) = 1
    /\ \E k \in 1..Len(valids) : Last(valids[k]).device = "/dev/nvme0p1"

\* The partitions of a disk whose name is a key of sys_fs_ready or of sys_fs_devs
Preexisting(disk) ==
    { i \in 1..Len(disk.partitions) :
        SchemeName(disk.device, i) \in (DOMAIN sys_fs_ready_devs) \cup (DOMAIN sys_fs_devs) }

\* C10: when the disk stage comes to a partition whose name is a key of
\* sys_fs_ready or of sys_fs_devs, validation returns BadManifest citing that
\* partition, and sys_fs_ready keeps its entries.
C10_PreexistingPartition ==
    [][ (/\ pc = "disks"
         /\ last'.op = "disk"
         /\ file_exists(last'.decl.device)
         /\ Preexisting(last'.decl) # {})
          => LET disk == last'.decl
                 first == CHOOSE i \in Preexisting(disk) : \A j \in Preexisting(disk) : i <= j
             IN  /\ pc' = "done"
                 /\ result' = Err("BadManifest", SchemeName(disk.device, first))
                 /\ sys_fs_ready_devs' = sys_fs_ready_devs ]_vars

\* A disk was rejected for its second partition, a key of sys_fs_ready that
\* is still there, after its first partition had been pushed
C10_Witness ==
    /\ last.op = "disk"
    /\ result.kind = "BadManifest"
    /\ result.about \in DOMAIN sys_fs_ready_devs
    /\ result.about = SchemeName(last.decl.device, 2)
    /\ Len(valids) = 1

\* C11: a manifest disk whose device does not exist on the host is rejected
\* with NoSuchDevice before any of its partitions is examined, and the store
\* gets no path for that disk.
C11_MissingDiskNoSuchDevice ==
    (last.op = "disk" /\ ~file_exists(last.decl.device))
        => /\ result = Err("NoSuchDevice", last.decl.device)
           /\ valids = DiskPaths(SubSeq(manifest.disks, 1, Len(manifest.disks) - 1))

\* Position of a stage in the order of validation
Rank(p) ==
    CASE p = "disks" -> 1
      [] p = "lv_size" -> 2
      [] p = "dm" -> 3
      [] p = "rootfs" -> 4
      [] p = "filesystems" -> 5
      [] p = "swap" -> 6
      [] p = "done" -> 7

\* s is t with declarations added at its end
Extends(s, t) == Len(s) >= Len(t) /\ SubSeq(s, 1, Len(t)) = t

\* C12: validation is fail-fast in one linear order: disks in manifest order,
\* then the last-LV size rule, then the DM entries in manifest order, then
\* the kind check of sys_fs_ready, rootfs, filesystems in order, swaps in
\* order.  The first failing check gives the value returned, nothing is
\* evaluated after it, and Ok is returned only when every check has passed.
C12_FailFastLinear ==
    [][ /\ result.kind = "Running"
        /\ Rank(pc') >= Rank(pc)
        /\ result'.kind \notin {"Running", "Ok"} => pc' = "done"
        /\ result'.kind = "Ok" => (pc = "swap" /\ pc' = "done")
        /\ pc' # "done" => Rank(pc') <= Rank(pc) + 1
        /\ manifest'.disks # manifest.disks
             => (pc = "disks" /\ Extends(manifest'.disks, manifest.disks))
        /\ manifest'.dm # manifest.dm => pc \in {"lv_size", "dm"}
        /\ (manifest'.dm # manifest.dm /\ pc = "dm")
             => Extends(dm_bases(manifest'.dm), dm_bases(manifest.dm))
        /\ manifest'.rootfs # manifest.rootfs => pc = "rootfs"
        /\ manifest'.filesystems # manifest.filesystems
             => (pc = "filesystems" /\ Extends(manifest'.filesystems, manifest.filesystems))
        /\ manifest'.swap # manifest.swap
             => (pc = "swap" /\ Extends(manifest'.swap, manifest.swap))
        /\ pc' = "rootfs" => not_fs_ready(sys_fs_ready_devs') = {}
      ]_vars

\* A DM entry was rejected and neither rootfs nor a filesystem nor a swap
\* has been looked at
C12_Witness ==
    /\ result.kind = "BadManifest"
    /\ last.op = "vg"
    /\ Len(manifest.dm) >= 2
    /\ FsNamed = <<>>
    /\ pc = "done"

\* C13: the last-LV-unsized rule is applied after the disk stage and before
\* any DM entry: on every host a manifest that violates the rule is rejected
\* with BadManifest at that point, when no DM entry has consumed an entry of
\* sys_fs_ready, emptied a path of sys_lvms or extended the store.
C13_RuleBeforeDm ==
    [][ (pc = "lv_size" /\ UnsizedNotLast(all_lvs(manifest'.dm)) # {})
          => /\ result'.kind = "BadManifest"
             /\ pc' = "done"
             /\ valids' = DiskPaths(manifest'.disks)
             /\ sys_fs_ready_devs' = sys_fs_ready_devs
             /\ sys_lvms' = sys_lvms ]_vars

\* The PVs the manifest has declared so far
DeclaredPvs(dm) == { u.base : u \in { w \in Range(dm_bases(dm)) : w.kind = "pv" } }

\* The device is a node of some path of sys_lvms or a key of the map
InSystem(p) ==
    \E i \in 1..Len(sys_lvms) :
        \/ sys_lvms[i].key = p
        \/ \E j \in 1..Len(sys_lvms[i].paths) :
             \E k \in 1..Len(sys_lvms[i].paths[j]) : sys_lvms[i].paths[j][k].device = p

\* This step validates a VG declaration
VgValidated == pc = "dm" /\ manifest'.dm # manifest.dm /\ last'.op = "vg"

\* C14: DM entries are processed in manifest order and, inside an LVM entry,
\* PVs before VGs before LVs.  A VG whose PVs were all declared before it, in
\* its own or an earlier entry, each still a PV tip of the store and none
\* known to the system, is accepted; a VG that lists a PV which no entry has
\* declared by then and which is absent from the system is rejected with
\* BadManifest.
C14_PvBeforeVg ==
    [][ VgValidated =>
          LET vg == last'.decl
              free(q) == /\ q \in DeclaredPvs(manifest.dm)
                         /\ \E k \in 1..Len(valids) : Last(valids[k]) = BlockDev(q, TYPE_PV)
                         /\ q \notin DOMAIN sys_fs_devs
                         /\ ~InSystem(q)
          IN  /\ (\E q \in Range(vg.pvs) :
                     q \notin DeclaredPvs(manifest.dm) /\ ~InSystem(q))
                   => result'.kind = "BadManifest"
              /\ (/\ \A q \in Range(vg.pvs) : free(q)
                  /\ \A a, b \in 1..Len(vg.pvs) : a # b => vg.pvs[a] # vg.pvs[b])
                   => result'.kind = "Running"
      ]_vars

\* A VG was accepted on a PV of an earlier entry, and a later VG was
\* rejected for a PV that exists as a file but was not declared
C14_Witness ==
    /\ result.kind = "BadManifest"
    /\ last.op = "vg"
    /\ \E q \in Range(last.decl.pvs) :
         q \notin DeclaredPvs(manifest.dm) /\ ~InSystem(q) /\ file_exists(q)
    /\ \E i, j \in 1..Len(manifest.dm) :
         /\ i < j
         /\ manifest.dm[i].kind = "Lvm"
         /\ manifest.dm[j].kind = "Lvm"
         /\ Len(manifest.dm[j].vgs) = 2
         /\ manifest.dm[j].vgs[1].pvs[1] \in Range(manifest.dm[i].pvs)

\* This step validates a LUKS, PV or VG declaration on a device of sys_fs_devs
FsDevDeclared ==
    /\ pc = "dm"
    /\ manifest'.dm # manifest.dm
    /\ \/ last'.op = "luks" /\ last'.decl.device \in DOMAIN sys_fs_devs
       \/ last'.op = "pv" /\ last'.decl \in DOMAIN sys_fs_devs
       \/ last'.op = "vg" /\ \E p \in Range(last'.decl.pvs) : p \in DOMAIN sys_fs_devs

\* C15 as stated: a key of sys_fs_devs named as LUKS base, as PV or as a PV
\* of a VG gives BadManifest with the store, sys_fs_ready and sys_lvms
\* unchanged.
C15_FsDevUnchanged ==
    [][ FsDevDeclared
          => /\ result'.kind = "BadManifest"
             /\ valids' = valids
             /\ sys_fs_ready_devs' = sys_fs_ready_devs
             /\ sys_lvms' = sys_lvms ]_vars

\* C15: a key of sys_fs_devs named as LUKS base, as PV or as a PV of a VG
\* gives BadManifest; sys_fs_ready is unchanged, and the store and sys_lvms
\* are unchanged for LUKS, for PV, and for a VG whose first listed PV is the
\* key of sys_fs_devs (the PVs a VG lists before it are validated first).
C15_FsDevRejected ==
    [][ FsDevDeclared
          => /\ result'.kind = "BadManifest"
             /\ sys_fs_ready_devs' = sys_fs_ready_devs
             /\ (last'.op = "vg" => last'.decl.pvs[1] \in DOMAIN sys_fs_devs)
                  => (valids' = valids /\ sys_lvms' = sys_lvms)
      ]_vars

\* A VG was rejected for its second PV, a filesystem of the host, after its
\* first PV, adopted from sys_lvms, had received the VG node
C15_Witness ==
    /\ result = Err("BadManifest", "/dev/sde")
    /\ last.op = "vg"
    /\ Len(last.decl.pvs) = 2
    /\ last.decl.pvs[2] \in DOMAIN sys_fs_devs
    /\ \E i \in 1..Len(sys_lvms) :
         sys_lvms[i].key = last.decl.pvs[1] /\ sys_lvms[i].paths = << <<>> >>
    /\ \E k \in 1..Len(valids) :
         Last(valids[k]) = BlockDev(vg_device(last.decl), TYPE_VG)

\* The positions <<i, j>> of the sys_lvms paths whose tip is the LV
LvTipped(lvms, base) ==
    { ij \in UNION { { <<i, j>> : j \in 1..Len(lvms[i].paths) } : i \in 1..Len(lvms) } :
        LET path == lvms[ij[1]].paths[ij[2]] IN
        /\ Len(path) >= 2
        /\ Last(path) = BlockDev(base, TYPE_LV)
        /\ path[Len(path) - 1].device_type = TYPE_VG }

\* This step validates a LUKS declaration whose base is the LV tip of a
\* sys_lvms path, past the checks of the mapper file and of sys_fs_devs
LuksOnSysLv ==
    /\ pc = "dm"
    /\ manifest'.dm # manifest.dm
    /\ last'.op = "luks"
    /\ ~file_exists(luks_device(last'.decl))
    /\ last'.decl.device \notin DOMAIN sys_fs_devs
    /\ LvTipped(sys_lvms, last'.decl.device) # {}

\* C16: LUKS on an LV of the system: every sys_lvms path with this LV as tip
\* on the VG is copied to the store with the LUKS node appended and is
\* emptied; afterwards the LV is no fs-ready tip and /dev/mapper/<name> is.
C16_LuksOnSystemLv ==
    [][ LuksOnSysLv =>
          LET luks == last'.decl
              luks_dev == BlockDev(luks_device(luks), TYPE_LUKS)
              tips == collect_fs_ready(sys_fs_ready_devs', sys_lvms', valids')
          IN  /\ result'.kind = "Running"
              /\ \A ij \in LvTipped(sys_lvms, luks.device) :
                   /\ sys_lvms'[ij[1]].paths[ij[2]] = <<>>
                   /\ \E k \in 1..Len(valids') :
                        valids'[k] = Append(sys_lvms[ij[1]].paths[ij[2]], luks_dev)
              /\ luks.device \notin tips
              /\ luks_device(luks) \in tips
      ]_vars

\* Some sys_lvms path whose tip is the device has a node beneath the tip
\* that is no VG
NonVgBeneath(lvms, base) ==
    \E i \in 1..Len(lvms) :
        \E j \in 1..Len(lvms[i].paths) :
            LET path == lvms[i].paths[j] IN
            /\ Len(path) >= 2
            /\ Last(path).device = base
            /\ path[Len(path) - 1].device_type # TYPE_VG

\* C17: validation of a LUKS declaration ends with a result value, Ok or an
\* error, for every sys_lvms map, paths of length 1 and emptied paths
\* included, and never by a panic; past the checks of the mapper file and of
\* sys_fs_devs, a sys_lvms path whose tip is the LUKS base with a node that
\* is no VG beneath the tip gives the internal-bug error.
C17_LuksErrorsReturned ==
    [][ (pc = "dm" /\ last'.op = "luks")
          => /\ result'.kind # "Panic"
             /\ (/\ ~file_exists(luks_device(last'.decl))
                 /\ last'.decl.device \notin DOMAIN sys_fs_devs
                 /\ NonVgBeneath(sys_lvms, last'.decl.device))
                  => result'.kind = "AliRsBug"
      ]_vars

\* The device is the tip of a path of sys_lvms or of the store
TipSomewhere(lvms, v, d) ==
    \/ \E q \in Range(lvms_paths(lvms, 1)) : q # <<>> /\ Last(q).device = d
    \/ \E q \in Range(v) : Last(q).device = d

\* This step validates a LUKS declaration that passes the checks of the
\* mapper file and of sys_fs_devs and whose base is no tip of sys_lvms or of
\* the store
LuksFallback ==
    /\ pc = "dm"
    /\ manifest'.dm # manifest.dm
    /\ last'.op = "luks"
    /\ ~file_exists(luks_device(last'.decl))
    /\ last'.decl.device \notin DOMAIN sys_fs_devs
    /\ ~TipSomewhere(sys_lvms, valids, last'.decl.device)

\* C18: the fallback of LUKS validation, for a base that is the tip of no
\* sys_lvms path and of no store path: (a) a base in sys_fs_ready gives the
\* store the path [UnknownBlock(base), Luks(/dev/mapper/<name>)] and loses
\* its sys_fs_ready entry; (b) else a base that exists as a file gives the
\* same path and sys_fs_ready is unchanged; (c) else the result is
\* NoSuchDevice(base) and nothing is changed.
C18_LuksFallback ==
    [][ LuksFallback =>
          LET base == last'.decl.device
              pushed == Append(valids, << BlockDev(base, TYPE_UNKNOWN),
                                          BlockDev(luks_device(last'.decl), TYPE_LUKS) >>)
          IN  /\ sys_lvms' = sys_lvms
              /\ base \in DOMAIN sys_fs_ready_devs
                   => /\ result'.kind = "Running"
                      /\ valids' = pushed
                      /\ sys_fs_ready_devs' = MapRemove(sys_fs_ready_devs, base)
              /\ (base \notin DOMAIN sys_fs_ready_devs /\ file_exists(base))
                   => /\ result'.kind = "Running"
                      /\ valids' = pushed
                      /\ sys_fs_ready_devs' = sys_fs_ready_devs
              /\ (base \notin DOMAIN sys_fs_ready_devs /\ ~file_exists(base))
                   => /\ result' = Err("NoSuchDevice", base)
                      /\ valids' = valids
                      /\ sys_fs_ready_devs' = sys_fs_ready_devs
      ]_vars

\* A LUKS took /dev/sdb, which is no file of the host, from sys_fs_ready
C18_Witness ==
    /\ last.op = "luks"
    /\ last.decl.device = "/dev/sdb"
    /\ result.kind = "Running"
    /\ "/dev/sdb" \notin files
    /\ "/dev/sdb" \notin DOMAIN sys_fs_ready_devs
    /\ Last(valids) = << BlockDev("/dev/sdb", TYPE_UNKNOWN),
                         BlockDev(luks_device(last.decl), TYPE_LUKS) >>

\* This step validates a PV declaration
PvValidated == pc = "dm" /\ manifest'.dm # manifest.dm /\ last'.op = "pv"

\* C19: a PV path declared a second time, in the same LVM entry or in a
\* later one, while the store path of the first declaration still has the
\* PV as its tip, gives BadManifest; a PV declared on a store tip whose kind
\* does not satisfy is_pv_base gives BadManifest; in both cases the store,
\* sys_fs_ready and sys_lvms are left as they were.
C19_DuplicateOrIllegalPv ==
    [][ /\ (/\ PvValidated
            /\ last'.decl \in DeclaredPvs(manifest.dm)
            /\ \E k \in 1..Len(valids) : Last(valids[k]) = BlockDev(last'.decl, TYPE_PV))
          => /\ result' = Err("BadManifest", last'.decl)
             /\ valids' = valids
             /\ sys_fs_ready_devs' = sys_fs_ready_devs
             /\ sys_lvms' = sys_lvms
        /\ (/\ PvValidated
            /\ \E k \in 1..Len(valids) :
                 /\ Last(valids[k]).device = last'.decl
                 /\ ~is_pv_base(Last(valids[k]).device_type))
          => /\ result' = Err("BadManifest", last'.decl)
             /\ valids' = valids
             /\ sys_fs_ready_devs' = sys_fs_ready_devs
             /\ sys_lvms' = sys_lvms
      ]_vars

\* The device is the tip of a store path
StoreTip(v, d) == \E q \in Range(v) : Last(q).device = d

\* The device is the tip of a sys_lvms path
SysLvmsTip(lvms, d) == \E q \in Range(lvms_paths(lvms, 1)) : q # <<>> /\ Last(q).device = d

\* C20: LVM on a device found nowhere is a BadManifest, not a NoSuchDevice:
\* a PV that is no store tip, no key of sys_fs_ready and no file of the
\* host, and a VG that lists a PV which is neither a store tip nor a
\* sys_lvms tip, are both rejected with BadManifest.
C20_LvmNowhereBadManifest ==
    [][ /\ (/\ PvValidated
            /\ ~StoreTip(valids, last'.decl)
            /\ last'.decl \notin DOMAIN sys_fs_ready_devs
            /\ ~file_exists(last'.decl))
          => result' = Err("BadManifest", last'.decl)
        /\ (/\ VgValidated
            /\ \E q \in Range(last'.decl.pvs) :
                 ~StoreTip(valids, q) /\ ~SysLvmsTip(sys_lvms, q))
          => result'.kind = "BadManifest"
      ]_vars

\* A PV was rejected that is no file, known to no map of the host and to no
\* path of the store
C20_Witness ==
    /\ last.op = "pv"
    /\ result = Err("BadManifest", last.decl)
    /\ ~file_exists(last.decl)
    /\ last.decl \notin DOMAIN sys_fs_ready_devs
    /\ last.decl \notin DOMAIN sys_fs_devs
    /\ ~InSystem(last.decl)
    /\ ~StoreTip(valids, last.decl)
    /\ valids # <<>>

\* The index of the first store path whose tip is the device
FirstTip(v, d) ==
    CHOOSE k \in 1..Len(v) :
        Last(v[k]).device = d /\ \A j \in 1..(k - 1) : Last(v[j]).device # d

\* The first store path whose tip is the PV has received the node of the VG
VgOnStorePath(vg, q) ==
    valids'[FirstTip(valids, q)] =
        Append(valids[FirstTip(valids, q)], BlockDev(vg_device(vg), TYPE_VG))

\* C21: the PVs of a VG are processed in the order listed.  A PV that is the
\* tip of a store path gives the node of the VG to that store path, and the
\* sys_lvms paths with the same PV as tip stay as they are; when every PV of
\* the VG is a store tip sys_lvms is unchanged (for a VG that lists each PV
\* once: a PV listed again is no store tip any more at its second turn).  A VG rejected for one of its
\* PVs has given its node to the store tips listed before that PV.
C21_VgStoreFirst ==
    [][ VgValidated =>
          LET vg == last'.decl
              pvs == vg.pvs
              kept(q) == \A i \in 1..Len(sys_lvms) : \A j \in 1..Len(sys_lvms[i].paths) :
                            (sys_lvms[i].paths[j] # <<>> /\ Last(sys_lvms[i].paths[j]).device = q)
                                => sys_lvms'[i].paths[j] = sys_lvms[i].paths[j]
              once == \A a, b \in 1..Len(pvs) : a # b => pvs[a] # pvs[b]
          IN  /\ (result'.kind = "Running" /\ once)
                   => /\ \A q \in Range(pvs) :
                           StoreTip(valids, q) => (VgOnStorePath(vg, q) /\ kept(q))
                      /\ (\A q \in Range(pvs) : StoreTip(valids, q)) => sys_lvms' = sys_lvms
              /\ \A p \in 1..Len(pvs) :
                   (/\ result' = Err("BadManifest", pvs[p])
                    /\ \A a \in 1..(p - 1) : pvs[a] # pvs[p])
                     => \A a \in 1..(p - 1) :
                          StoreTip(valids, pvs[a]) => VgOnStorePath(vg, pvs[a])
      ]_vars

\* A VG was accepted on a PV of the store while a sys_lvms path has the same
\* PV as its tip
C21_Witness ==
    /\ last.op = "vg"
    /\ result.kind = "Running"
    /\ \E q \in Range(last.decl.pvs) :
         /\ SysLvmsTip(sys_lvms, q)
         /\ \E k \in 1..Len(valids) :
              /\ Len(valids[k]) >= 2
              /\ Last(valids[k]) = BlockDev(vg_device(last.decl), TYPE_VG)
              /\ valids[k][Len(valids[k]) - 1] = BlockDev(q, TYPE_PV)

\* The positions <<i, j>> of the paths of a sys_lvms map
LvmsPositions(lvms) ==
    UNION { { <<i, j>> : j \in 1..Len(lvms[i].paths) } : i \in 1..Len(lvms) }

\* The store paths [LvmPv(pv), LvmVg(_)]: the PV-only paths of sys_lvms[pv]
\* that a VG has adopted
AdoptedPvPaths(v, pv) ==
    { k \in 1..Len(v) :
        /\ Len(v[k]) = 2
        /\ v[k][1] = BlockDev(pv, TYPE_PV)
        /\ v[k][2].device_type = TYPE_VG }

\* The emptied paths under the key
EmptiedPaths(lvms, pv) ==
    { ij \in LvmsPositions(lvms) :
        lvms[ij[1]].key = pv /\ lvms[ij[1]].paths[ij[2]] = <<>> }

\* C22: a VG that takes a PV from sys_lvms gives the store a clone of the
\* system path extended with the node of the VG and empties that path in
\* place.  No step changes the keys of sys_lvms or the number of paths under
\* a key; an emptied path stays empty, no search fails on it, the fs-ready
\* tips come from the paths that are not emptied, and no PV-only path is
\* adopted twice: the store never has
\* more adopted copies of the paths of a key than the key has emptied paths.
C22_AdoptAndClear ==
    [][ /\ Len(sys_lvms') = Len(sys_lvms)
        /\ \A i \in 1..Len(sys_lvms) :
             /\ sys_lvms'[i].key = sys_lvms[i].key
             /\ Len(sys_lvms'[i].paths) = Len(sys_lvms[i].paths)
        /\ \A ij \in LvmsPositions(sys_lvms) :
             sys_lvms[ij[1]].paths[ij[2]] = <<>> => sys_lvms'[ij[1]].paths[ij[2]] = <<>>
        /\ result'.kind # "Panic"
        /\ (pc = "dm" /\ pc' = "rootfs")
             => \A d \in fs_ready_devs' :
                  \/ d \in DOMAIN sys_fs_ready_devs'
                  \/ SysLvmsTip(sys_lvms', d)
                  \/ StoreTip(valids', d)
        /\ \A i \in 1..Len(sys_lvms') :
             Cardinality(AdoptedPvPaths(valids', sys_lvms'[i].key))
                <= Cardinality(EmptiedPaths(sys_lvms', sys_lvms'[i].key))
        /\ (VgValidated /\ result'.kind = "Running")
             => \A q \in Range(last'.decl.pvs) :
                  (~StoreTip(valids, q))
                    => \E ij \in LvmsPositions(sys_lvms) :
                         LET path == sys_lvms[ij[1]].paths[ij[2]] IN
                         /\ path # <<>>
                         /\ Last(path) = BlockDev(q, TYPE_PV)
                         /\ sys_lvms'[ij[1]].paths[ij[2]] = <<>>
                         /\ \E k \in (Len(valids) + 1)..Len(valids') :
                              valids'[k] = Append(path, BlockDev(vg_device(last'.decl), TYPE_VG))
      ]_vars

\* A VG adopted /dev/sdc from sys_lvms and a second VG that lists /dev/sdc
\* was rejected
C22_Witness ==
    /\ last.op = "vg"
    /\ result = Err("BadManifest", "/dev/sdc")
    /\ AdoptedPvPaths(valids, "/dev/sdc") # {}
    /\ EmptiedPaths(sys_lvms, "/dev/sdc") # {}
    /\ ~StoreTip(valids, "/dev/sdc")

\* C23: a VG that takes one of its PVs from sys_lvms while some sys_lvms path
\* has the VG /dev/<name> as its tip is rejected with BadManifest, wherever
\* that path stands in the map.
C23_DuplicateVg ==
    [][ (/\ VgValidated
         /\ \E q \in Range(last'.decl.pvs) : ~StoreTip(valids, q)
         /\ \E path \in Range(lvms_paths(sys_lvms, 1)) :
              path # <<>> /\ Last(path) = BlockDev(vg_device(last'.decl), TYPE_VG))
          => result'.kind = "BadManifest"
      ]_vars

\* This step validates an LV declaration
LvValidated == pc = "dm" /\ manifest'.dm # manifest.dm /\ last'.op = "lv"

\* C24: an LV on VG v is accepted exactly when a path of the store or of
\* sys_lvms has the tip (/dev/<v>, LvmVg), and is a BadManifest otherwise.
\* An accepted LV pushes, for each such path, a clone extended with
\* LvmLv(/dev/<v>/<name>); the paths of the store, the VG-tipped ones
\* included, and sys_lvms and sys_fs_ready stay as they are, and the device
\* of the LV is an fs-ready tip.
C24_LvOnEveryVgPath ==
    [][ LvValidated =>
          LET lv == last'.decl
              vg_dev == BlockDev(vg_lv_name(lv)[1], TYPE_VG)
              lv_dev == BlockDev(vg_lv_name(lv)[2], TYPE_LV)
              bases == SelectSeq(valids \o lvms_paths(sys_lvms, 1),
                                 LAMBDA q : q # <<>> /\ Last(q) = vg_dev)
          IN  /\ bases = <<>> => (result'.kind = "BadManifest" /\ valids' = valids)
              /\ bases # <<>>
                   => /\ result'.kind = "Running"
                      /\ valids' = valids \o [n \in 1..Len(bases) |-> Append(bases[n], lv_dev)]
                      /\ lv_dev.device
                           \in collect_fs_ready(sys_fs_ready_devs', sys_lvms', valids')
              /\ sys_lvms' = sys_lvms
              /\ sys_fs_ready_devs' = sys_fs_ready_devs
      ]_vars

\* Two LVs were accepted on one VG that spans two PVs
C24_Witness ==
    /\ last.op = "lv"
    /\ result.kind = "Running"
    /\ Len(all_lvs(manifest.dm)) = 2
    /\ vg_lv_name(all_lvs(manifest.dm)[1])[1] = vg_lv_name(all_lvs(manifest.dm)[2])[1]
    /\ all_lvs(manifest.dm)[1].name # all_lvs(manifest.dm)[2].name
    /\ \A n \in 1..2 :
         Cardinality({ k \in 1..Len(valids) :
                         Last(valids[k]) = BlockDev(vg_lv_name(all_lvs(manifest.dm)[n])[2],
                                                    TYPE_LV) }) = 2

\* The kinds a filesystem can be made on
FsBaseKinds == {TYPE_UNKNOWN, TYPE_DISK, TYPE_PART, TYPE_LUKS, TYPE_LV}

\* The tips of the store and of the paths of sys_lvms that are not emptied
AllTips(lvms, v) ==
    { Last(q) : q \in { x \in Range(lvms_paths(lvms, 1)) : x # <<>> } }
    \cup { Last(q) : q \in Range(v) }

\* The step that ends DM processing and collects the fs-ready tips
FsReadyCollected == pc = "dm" /\ pc' = "rootfs"

\* C25: the fs-ready tips are the keys left in sys_fs_ready, the tips of the
\* sys_lvms paths that are not emptied and the tips of the store paths, the
\* latter two when their kind is a filesystem base; the device of a tip of
\* kind LvmPv or LvmVg is not among them.
C25_FsReadyTips ==
    [][ FsReadyCollected
          => /\ \A d \in fs_ready_devs' :
                  \/ d \in DOMAIN sys_fs_ready_devs
                  \/ \E n \in AllTips(sys_lvms, valids) :
                       n.device = d /\ n.device_type \in FsBaseKinds
             /\ DOMAIN sys_fs_ready_devs \subseteq fs_ready_devs'
             /\ \A n \in AllTips(sys_lvms, valids) :
                  /\ n.device_type \in FsBaseKinds => n.device \in fs_ready_devs'
                  /\ n.device_type \in {TYPE_PV, TYPE_VG} => n.device \notin fs_ready_devs'
      ]_vars

\* The step that follows the last DM entry
DmEnded == pc = "dm" /\ manifest' = manifest /\ pc' # "dm"

\* C26: when DM processing is over, an entry left in sys_fs_ready whose kind
\* is no filesystem base gives the internal-bug error before rootfs is read,
\* whether or not the manifest names the device; without such an entry the
\* fs stage starts.  An entry of such a kind that an accepted PV or LUKS is
\* declared on is taken out of sys_fs_ready and does not give the error.
C26_IllTypedReady ==
    [][ /\ DmEnded
          => IF \E d \in DOMAIN sys_fs_ready_devs : sys_fs_ready_devs[d] \notin FsBaseKinds
             THEN /\ result'.kind = "NayiRsBug"
                  /\ sys_fs_ready_devs[result'.about] \notin FsBaseKinds
                  /\ pc' = "done"
                  /\ manifest'.rootfs = None
             ELSE /\ result'.kind = "Running"
                  /\ pc' = "rootfs"
        /\ ((PvValidated \/ (pc = "dm" /\ manifest'.dm # manifest.dm /\ last'.op = "luks"))
            /\ result'.kind = "Running")
          => LET base == IF last'.op = "pv" THEN last'.decl ELSE last'.decl.device
             IN  (base \in DOMAIN sys_fs_ready_devs /\ sys_fs_ready_devs[base] \notin FsBaseKinds)
                   => base \notin DOMAIN sys_fs_ready_devs'
      ]_vars

\* The error was returned for /dev/sdb, listed as fs-ready with the kind of
\* a PV, after DM entries that do not name /dev/sdb
C26_Witness ==
    /\ result = Err("NayiRsBug", "/dev/sdb")
    /\ pc = "done"
    /\ manifest.dm # <<>>
    /\ \A n \in 1..Len(dm_bases(manifest.dm)) : dm_bases(manifest.dm)[n].base # "/dev/sdb"
    /\ \A n \in 1..Len(all_vgs(manifest.dm)) : "/dev/sdb" \notin Range(all_vgs(manifest.dm)[n].pvs)

\* C27: every path of the store has at least one node in every state of
\* validation, and no validator and no stage fails reading the tip of a
\* store path.
C27_StorePathsNonEmpty ==
    /\ \A k \in 1..Len(valids) : Len(valids[k]) >= 1
    /\ result.kind # "Panic"

\* Validation returned Ok after the searches of a LUKS, a PV and a VG and
\* the fs stage went over a store of several paths
C27_Witness ==
    /\ result.kind = "Ok"
    /\ Len(valids) >= 2
    /\ {"luks", "pv"} \subseteq { dm_bases(manifest.dm)[n].kind : n \in 1..Len(dm_bases(manifest.dm)) }
    /\ all_vgs(manifest.dm) # <<>>

IsPrefix(p, q) == Len(p) <= Len(q) /\ \A n \in 1..Len(p) : q[n] = p[n]

\* C28: the store starts empty and only grows: a step of validation keeps
\* every path where it is, with the nodes it had, and gives it at most one
\* more node at its tip; new paths come after the old ones; and every entry
\* of sys_fs_ready after a step was there, with the same kind, before it.
C28_StoreOnlyGrows ==
    /\ valids = <<>>
    /\ [][ /\ Len(valids') >= Len(valids)
           /\ \A k \in 1..Len(valids) :
                /\ IsPrefix(valids[k], valids'[k])
                /\ Len(valids'[k]) <= Len(valids[k]) + 1
           /\ \A d \in DOMAIN sys_fs_ready_devs' :
                /\ d \in DOMAIN sys_fs_ready_devs
                /\ sys_fs_ready_devs'[d] = sys_fs_ready_devs[d]
         ]_vars

\* A device was taken out of sys_fs_ready into a new path that later got a
\* node at its tip, next to the paths of the disk stage
C28_Witness ==
    /\ Len(valids) >= 3
    /\ "/dev/sdb" \notin DOMAIN sys_fs_ready_devs
    /\ \E k \in 2..Len(valids) :
         /\ Len(valids[k]) >= 2
         /\ valids[k][1].device = "/dev/sdb"
         /\ valids[1][1].device = "/dev/sda"

\* What validate_blk has read of the manifest stays as it was read
ManifestKept ==
    /\ IsPrefix(manifest.disks, manifest'.disks)
    /\ IsPrefix(dm_bases(manifest.dm), dm_bases(manifest'.dm))
    /\ IsPrefix(all_vgs(manifest.dm), all_vgs(manifest'.dm))
    /\ IsPrefix(all_lvs(manifest.dm), all_lvs(manifest'.dm))
    /\ manifest.rootfs # None => manifest'.rootfs = manifest.rootfs
    /\ IsPrefix(manifest.filesystems, manifest'.filesystems)
    /\ IsPrefix(manifest.swap, manifest'.swap)

Retried == pc = "done" /\ pc' # "done"

\* C29: validation commits nothing. No step, whether it goes on, returns Ok
\* or returns an error, changes what it has read of the manifest, the host's
\* files, sys_fs_devs, or the sys_fs_ready and sys_lvms maps the caller
\* holds, also when the maps validate_blk works on have lost entries by
\* then; and validate called again after an error starts from the caller's
\* maps, in a state a first run starts from.
C29_NothingCommitted ==
    [][ /\ files' = files
        /\ sys_fs_devs' = sys_fs_devs
        /\ caller' = caller
        /\ ~Retried => ManifestKept
        /\ Retried
             => /\ sys_fs_ready_devs' = caller.sys_fs_ready_devs
                /\ sys_lvms' = caller.sys_lvms
                /\ Init'
      ]_vars

\* An error returned after a device was consumed from sys_fs_ready and a
\* path of sys_lvms was adopted and cleared
C29_Witness ==
    /\ pc = "done"
    /\ result.kind \notin {"Ok", "Running"}
    /\ DOMAIN sys_fs_ready_devs # DOMAIN caller.sys_fs_ready_devs
    /\ sys_lvms # caller.sys_lvms

\* C30: unless run was told not to validate, apply_manifest is called, and any
\* of its actions performed, only after validate returned Ok; when validate
\* returned an error run ends with that error and no action was performed;
\* and with no_validate set validate is not called at all.
C30_ValidateBeforeApply ==
    /\ (run_pc \in {"update", "apply", "dms"} \/ actions # <<>> \/ executed # <<>>)
         => (args.no_validate \/ validated = Ok)
    /\ validated \notin {Ok, Running}
         => /\ actions = <<>>
            /\ executed = <<>>
            /\ stage = 0
            /\ run_pc \in {"done", "exited"}
            /\ report = validated
    /\ args.no_validate => validated = Running

\* run validated the manifest, got Ok, and apply_manifest has gone through
\* its disks stage and created a PV
C30_Witness ==
    /\ ~args.no_validate
    /\ validated = Ok
    /\ Len(actions) >= 2
    /\ actions[1].action = "ApplyDisks"
    /\ actions[2].action = "CreateDmLvmPv"

\* The LUKS declarations of manifest.dm in their order
RECURSIVE all_luks(_)
all_luks(dm) ==
    IF dm = <<>> THEN <<>>
    ELSE (IF Head(dm).kind = "Luks" THEN <<Head(dm)>> ELSE <<>>) \o all_luks(Tail(dm))

\* C40: in no accepted manifest do two LUKS entries have the same name on
\* different bases, and no two paths of the store end in the same Luks node
\* on different nodes beneath it.
C40_OneLuksPerName ==
    Accepted
      => /\ \A m, n \in 1..Len(all_luks(manifest.dm)) :
              all_luks(manifest.dm)[m].name = all_luks(manifest.dm)[n].name
                => all_luks(manifest.dm)[m].device = all_luks(manifest.dm)[n].device
         /\ \A k, j \in 1..Len(valids) :
              (Last(valids[k]).device_type = TYPE_LUKS /\ Last(valids[k]) = Last(valids[j]))
                => /\ Len(valids[k]) >= 2 /\ Len(valids[j]) >= 2
                   /\ valids[k][Len(valids[k]) - 1].device = valids[j][Len(valids[j]) - 1].device

\* The devices of the manifest's disks that have at least one partition
PartitionedDisks ==
    { manifest.disks[n].device : n \in { m \in 1..Len(manifest.disks) : manifest.disks[m].partitions # <<>> } }

\* C39: in no accepted manifest is a disk that the manifest partitions also
\* the rootfs, a filesystem or a swap device, a PV, or the base of a LUKS
\* volume.
C39_PartitionedDiskNotWhole ==
    Accepted
      => \A d \in PartitionedDisks :
           /\ d \notin Range(manifest.rootfs) \cup Range(manifest.filesystems) \cup Range(manifest.swap)
           /\ \A n \in 1..Len(dm_bases(manifest.dm)) : dm_bases(manifest.dm)[n].base # d

\* The orders in which a map of the entries of lvms may be iterated
Reorders(lvms) ==
    { [i \in 1..Len(lvms) |-> lvms[f[i]]] : f \in Permutations(1..Len(lvms)) }

DmValidated(op) == pc = "dm" /\ manifest'.dm # manifest.dm /\ last'.op = op

\* C38: the outcome of validation, Ok or the kind of the error, is the same
\* in whatever order the sys_lvms map is iterated and in whatever order the
\* last-LV size rule visits the VGs: the search of a LUKS, a PV or a VG
\* declaration returns the same kind of result for every order of the
\* entries of sys_lvms, and the size rule has one kind of result.
C38_OrderIndependent ==
    [][ /\ DmValidated("luks")
          => \A l \in Reorders(sys_lvms) :
               collect_valid_luks(last'.decl, sys_fs_ready_devs, l, valids).res.kind
                 = collect_valid_luks(last'.decl, sys_fs_ready_devs, sys_lvms, valids).res.kind
        /\ DmValidated("pv")
          => \A l \in Reorders(sys_lvms) :
               collect_valid_pv(last'.decl, sys_fs_ready_devs, l, valids).res.kind
                 = collect_valid_pv(last'.decl, sys_fs_ready_devs, sys_lvms, valids).res.kind
        /\ DmValidated("vg")
          => \A l \in Reorders(sys_lvms) :
               collect_valid_vg(last'.decl, sys_fs_ready_devs, l, valids).res.kind
                 = collect_valid_vg(last'.decl, sys_fs_ready_devs, sys_lvms, valids).res.kind
        /\ (pc = "lv_size" /\ pc' # "lv_size")
          => Cardinality({ r.kind : r \in validate_lv_size(all_lvs(manifest'.dm)) }) = 1
      ]_vars

\* C31: when a command of the apply stage fails, the list of performed
\* actions of the error run returns holds exactly the actions whose commands
\* completed, in the order of their execution.
C31_PerformedIsExecuted ==
    report.kind = "InstallError" => install_error.actions_performed = executed

\* The commands of the LVM entries in a list of device mapper entries
RECURSIVE LvmCommands(_)
LvmCommands(dms) ==
    IF dms = <<>> THEN <<>>
    ELSE [i \in 1..Len(Head(dms).pvs) |-> ActionOf("CreateDmLvmPv", {}, Head(dms).pvs[i])]
         \o [i \in 1..Len(Head(dms).vgs) |-> ActionOf("CreateDmLvmVg", {}, Head(dms).vgs[i])]
         \o [i \in 1..Len(Head(dms).lvs) |-> ActionOf("CreateDmLvmLv", {}, Head(dms).lvs[i])]
         \o LvmCommands(Tail(dms))

\* apply_dms is at a LUKS entry
AtLuksEntry ==
    /\ run_pc = "dms"
    /\ dm_at \in 1..Len(run_manifest.device_mappers)
    /\ run_manifest.device_mappers[dm_at].kind = "Luks"

\* C32: apply_dm on a LUKS entry returns NotImplemented without running a
\* command or recording an action; apply_dms fails at that entry, with the
\* entries before it applied and no command of an entry after it ever run.
C32_LuksApplyIsStub ==
    [][ /\ AtLuksEntry
          => /\ run_pc' = "done"
             /\ install_error'.action_failed = "ApplyDms"
             /\ install_error'.error.error = "NotImplemented"
             /\ install_error'.error.actions_performed
                  = LvmCommands(SubSeq(run_manifest.device_mappers, 1, dm_at - 1))
             /\ executed' = executed
             /\ actions' = actions
             /\ dms_actions' = dms_actions
             /\ dm_actions' = dm_actions
        /\ run_pc \in {"done", "exited"} => executed' = executed
      ]_vars

\* apply_dms failed at a LUKS entry that stands after an LVM entry
C32_Witness ==
    /\ run_pc = "done"
    /\ install_error.action_failed = "ApplyDms"
    /\ install_error.error.error = "NotImplemented"
    /\ install_error.error.actions_performed # <<>>
    /\ Len(run_manifest.device_mappers) = 2
    /\ run_manifest.device_mappers[2].kind = "Luks"

\* C33: the exit code is 0 exactly when the manifest was applied, and on any
\* failure a diagnostic is on stderr and the exit code is not 0.
C33_ExitCode ==
    run_pc = "exited"
      => /\ exit_code = 0 <=> report = Ok
         /\ report # Ok => (stderr # "" /\ exit_code # 0)

\* The order of the stages of apply_manifest
StageOrder ==
    << "ApplyDisks", "ApplyDms", "ApplyRootfs", "ApplyFilesystems", "MkdirRootFs",
       "MountRootFs", "Mkdir", "MountFilesystems", "InstallPackages", "AliRoutine",
       "AliArchChroot", "UserArchChroot", "UserPostInstall" >>

\* The place of an action's stage in StageOrder
StageIndex(a) ==
    IF a \in {"CreateDmLvmPv", "CreateDmLvmVg", "CreateDmLvmLv"} THEN 2
    ELSE CHOOSE n \in 1..Len(StageOrder) : StageOrder[n] = a

\* The stages a manifest has
HasStage(m, n) ==
    CASE n = 1 -> m.disks # <<>>
      [] n = 2 -> m.device_mappers # <<>>
      [] n \in {4, 7, 8} -> m.filesystems # <<>>
      [] n = 12 -> m.chroot # <<>>
      [] n = 13 -> m.postinstall # <<>>
      [] OTHER -> TRUE

\* C35: apply_manifest goes through its stages in one order, each after the
\* one before succeeded: the performed actions and the completed commands
\* stand in the order of the stages; the log of a successful run has every
\* stage of the manifest, once for every stage but the device mappers'; and
\* after a stage failed no command of a later stage has completed.
C35_StagesInOrder ==
    /\ \A i, j \in 1..Len(actions) :
         i < j => /\ StageIndex(actions[i].action) <= StageIndex(actions[j].action)
                  /\ StageIndex(actions[j].action) # 2
                       => StageIndex(actions[i].action) < StageIndex(actions[j].action)
    /\ \A i, j \in 1..Len(executed) :
         i < j => StageIndex(executed[i].action) <= StageIndex(executed[j].action)
    /\ report = Ok
         => \A n \in 1..Len(StageOrder) :
              HasStage(run_manifest, n) <=> \E i \in 1..Len(actions) : StageIndex(actions[i].action) = n
    /\ report.kind = "InstallError"
         => /\ HasStage(run_manifest, StageIndex(install_error.action_failed))
            /\ \A i \in 1..Len(executed) :
                 StageIndex(executed[i].action) <= StageIndex(install_error.action_failed)
            /\ \A i \in 1..Len(actions) :
                 StageIndex(actions[i].action) < StageIndex(install_error.action_failed)
            /\ \A n \in 1..(StageIndex(install_error.action_failed) - 1) :
                 HasStage(run_manifest, n) <=> \E i \in 1..Len(executed) : StageIndex(executed[i].action) = n

\* A run that went through all thirteen stages
C35_Witness ==
    /\ report = Ok
    /\ \A n \in 1..Len(StageOrder) : \E i \in 1..Len(actions) : StageIndex(actions[i].action) = n

\* The kinds of the commands of an entry, as far as they have completed
DoneKinds == [i \in 1..Len(dm_actions) |-> dm_actions[i].action]

\* apply_dm is at an LVM entry
AtLvmEntry ==
    /\ run_pc = "dms"
    /\ dm_at \in 1..Len(run_manifest.device_mappers)
    /\ run_manifest.device_mappers[dm_at].kind = "Lvm"

\* C36: apply_dm on an LVM entry creates the PVs, then the VGs, then the LVs,
\* each list in the order of the manifest; an action is appended only when
\* its command has completed; and the first command that fails ends the
\* entry, and no later command of it runs.
C36_PvVgLvOrder ==
    [][ /\ AtLvmEntry
          => LET dm == run_manifest.device_mappers[dm_at]
                 order == LvmCommands(<<dm>>)
             IN  /\ dm_actions = SubSeq(order, 1, Len(dm_actions))
                 /\ Len(executed) >= Len(dm_actions)
                 /\ dm_actions = SubSeq(executed, Len(executed) - Len(dm_actions) + 1, Len(executed))
                 /\ executed' # executed
                      => /\ executed' = Append(executed, order[Len(dm_actions) + 1])
                         /\ dm_actions' = Append(dm_actions, order[Len(dm_actions) + 1])
                 /\ dm_actions' # dm_actions
                      => \/ executed' # executed
                         \/ (Len(dm_actions) = Len(order) /\ dm_actions' = <<>>)
                 /\ report'.kind = "InstallError"
                      => /\ run_pc' = "done"
                         /\ executed' = executed
                         /\ install_error'.error.error = "CmdFailed"
        /\ run_pc \in {"done", "exited"} => executed' = executed
      ]_vars

\* A PV, a VG and an LV of one entry were created, in this order
C36_Witness ==
    /\ run_pc = "dms"
    /\ DoneKinds = <<"CreateDmLvmPv", "CreateDmLvmVg", "CreateDmLvmLv">>

\* The kinds of the action log
ActionLogKinds ==
    { "applyDisks", "applyDms", "createRootFs", "mountRootFs", "mkdirFs",
      "createPartitionTable", "createPartition", "setPartitionType", "createDmLuks",
      "createLvmPv", "createLvmVg", "createLvmLv", "createFilesystem", "mountFilesystem",
      "installPackages", "genfstab", "setHostname", "setTimezone", "localeGen",
      "localeConf", "commandsChroot", "commandsPostInstall" }

\* The tag an action of the serialized report has when it is of variant v
TagOf(v, tag) == \A i \in 1..Len(actions) : actions[i].action = v => json[i] = tag

\* C34: every kind of the action log is the tag under which a variant of
\* Action is serialized; the partition-type action is serialized as
\* setPartitionType, and createRootFs, genfstab, setHostname, commandsChroot
\* and commandsPostInstall are the tags of their variants.
C34_ActionLogTags ==
    run_pc = "json"
      => /\ Len(json) = Len(actions)
         /\ \A k \in ActionLogKinds : \E v \in ActionVariants : serde_tag(v) = k
         /\ TagOf("SetPartitionType", "setPartitionType")
         /\ TagOf("CreateRootFs", "createRootFs")
         /\ TagOf("GenFstab", "genfstab")
         /\ TagOf("SetHostname", "setHostname")
         /\ TagOf("RunCommandsChroot", "commandsChroot")
         /\ TagOf("RunCommandsPostInstall", "commandsPostInstall")

\* The words of a command
RECURSIVE WordsOf(_)
WordsOf(c) ==
    IF c = <<>> THEN <<>>
    ELSE IF Head(c) = " " THEN WordsOf(Tail(c))
    ELSE <<Head(c)>> \o WordsOf(Tail(c))

\* C37: parse_quicknet accepts a command exactly when its first word is the
\* quicknet key or its print variant and it has either 2 words, the second
\* not "dns" (no DNS upstream), or 4 words with the first "dns" at index 1
\* (upstream word 2, interface word 3) or at index 2 (interface word 1,
\* upstream word 3), words counted from 0; any other command is an error.
C37_ParseQuicknet ==
    qn.kind # "None"
      => LET t == WordsOf(cmd)
             key == Len(t) >= 1 /\ t[1] \in {"@quicknet", QUICKNET_PRINT}
             two == Len(t) = 2 /\ t[2] # "dns"
             dns1 == Len(t) = 4 /\ t[2] = "dns"
             dns2 == Len(t) = 4 /\ t[2] # "dns" /\ t[3] = "dns"
         IN  /\ qn.kind = "Ok" <=> (key /\ (two \/ dns1 \/ dns2))
             /\ qn.kind # "Ok" => qn = BadHookCmd
             /\ qn.kind = "Ok"
                  => /\ qn.print_only = (t[1] = QUICKNET_PRINT)
                     /\ two => (qn.interface = t[2] /\ qn.dns_upstream = None)
                     /\ dns1 => (qn.interface = t[4] /\ qn.dns_upstream = Some(t[3]))
                     /\ dns2 => (qn.interface = t[2] /\ qn.dns_upstream = Some(t[4]))

\* A command with the keyword at index 2, between blanks, was accepted
C37_Witness ==
    /\ qn.kind = "Ok"
    /\ qn.interface = "eth0"
    /\ qn.dns_upstream = Some("1.1.1.1")
    /\ WordsOf(cmd) = <<"@quicknet", "eth0", "dns", "1.1.1.1">>
    /\ Len(cmd) = 5

=============================================================================
